---- MODULE Spec2Model ----
(***************************************************************************)
(* A model of the Google Drive automation tool: the retrying request       *)
(* executor, the paginated folder listing, the item operations and the     *)
(* batch command runner (src/drive_manager.py, src/gdrive_tool.py,         *)
(* src/utilities.py).                                                      *)
(***************************************************************************)
EXTENDS Integers, Sequences, FiniteSets, TLC

(***************************************************************************)
(* Bounds of the model.                                                    *)
(***************************************************************************)
\* largest configured max_retries (config.yaml holds any integer)
MaxRetriesCfg == 3
\* largest configured retry_delay, in seconds (a duration, so never negative)
MaxDelay == 2
\* largest number of children of the listed folder
MaxChildren == 5
\* largest configured batch_size (the page size of a list request)
MaxBatch == 3
\* deepest nesting of copy_drive_item calls before Python's recursion limit
MaxCopyDepth == 4
\* longest batch of commands
MaxCmds == 3
\* last request of a batch run that the service may fail
MaxFaultPos == 3
\* most subfolders of the folder of a fan-out copy
MaxSubfolders == 3
\* last request of a copy that the service may fail
MaxCopyRequests == 24
\* the time the clock stops at, in ticks, and the ticks of one second
MaxClock == 3

TicksPerSecond == 2
\* the page size the service uses for a list request that names none
DefaultPageSize == 2

(***************************************************************************)
(* Generic helpers.                                                        *)
(***************************************************************************)
Min(a, b) == IF a <= b THEN a ELSE b

Max(a, b) == IF a >= b THEN a ELSE b

\* a local assigned once: the value of F at the value of x
Bind(x, F(_)) == CHOOSE y \in {F(v) : v \in {x}} : TRUE

(***************************************************************************)
(* DriveManager._execute_with_retry                                        *)
(***************************************************************************)
\* the status of a request.execute() that returns a response
HTTP_OK == 200

\* mutant: a server error 500 is not retried
RetryableStatusNo500 == {429, 503}

\* mutant: a not-found error is retried
RetryableStatusWith404 == {429, 500, 503, 404}

\* error.resp.status in [429, 500, 503]
RetryableStatus == {429, 500, 503}

\* statuses of an HttpError that is not retried: not found, permission denied
PermanentStatus == {404, 403}

\* the statuses a scripted request answers with
Statuses == {HTTP_OK, 429, 500, 503, 404, 403}

\* the configurations config.yaml can hold: nothing validates max_retries
RetryConfigs == (0 - 1) .. MaxRetriesCfg

DelayConfigs == 0 .. MaxDelay

\* the number of statuses the scripted request holds: one per invocation
ScriptLen == Max(MaxRetriesCfg, 1)

\* mutant: the exponent is the retry count before its increment
WaitTimeStaleCount(rc, delay) == (2 ^ (rc - 1)) * delay

\* wait_time = (2 ** retry_count) * self.retry_delay
WaitTime(rc, delay) == (2 ^ rc) * delay

\* One iteration of the while loop: request.execute() ended with `status`.
\* Gives the position after it, the new retry_count and the sleeps it made.
RetryIteration(rc, status, maxr, delay) ==
  IF status = HTTP_OK
    THEN [pc |-> "returned", retry_count |-> rc, slept |-> <<>>]
    ELSE IF status \in RetryableStatus
      THEN IF rc + 1 = maxr
             THEN [pc |-> "raised", retry_count |-> rc + 1, slept |-> <<>>]
             ELSE [pc |-> "loop", retry_count |-> rc + 1,
                   slept |-> <<WaitTime(rc + 1, delay)>>]
      ELSE [pc |-> "raised", retry_count |-> rc, slept |-> <<>>]

\* The whole of _execute_with_retry on a request whose i-th execute() ends with
\* req[i]: the loop run from (retry_count, invocations) = (rc, inv).
RECURSIVE RetryLoop(_, _, _, _, _)
RetryLoop(req, maxr, delay, rc, inv) ==
  IF ~(rc < maxr)
    THEN [pc |-> "fell_through", invoked |-> inv, val |-> 0]
    ELSE Bind(RetryIteration(rc, req[inv + 1], maxr, delay),
              LAMBDA it :
                IF it.pc = "loop"
                  THEN RetryLoop(req, maxr, delay, it.retry_count, inv + 1)
                  ELSE [pc |-> it.pc, invoked |-> inv + 1,
                        val |-> IF it.pc = "returned" THEN inv + 1
                                ELSE req[inv + 1]])

ExecuteWithRetry(req, maxr, delay) == RetryLoop(req, maxr, delay, 0, 0)

\* How the remote service answers one request: at once, after one transient
\* failure, never (always 503), or with a permanent error.
RequestKinds == {"ok", "flaky", "down", "gone"}

RequestScript(kind) ==
  [i \in 1 .. ScriptLen |->
     CASE kind = "ok" -> HTTP_OK
       [] kind = "flaky" -> IF i = 1 THEN 503 ELSE HTTP_OK
       [] kind = "down" -> 503
       [] OTHER -> 404]

\* The configurations under which the listing and the item operations are
\* modelled: max_retries >= 1 (SpecRetry covers the others).
WorkingRetryConfigs == 1 .. MaxRetriesCfg

(***************************************************************************)
(* DriveManager.list_folder_contents                                       *)
(***************************************************************************)
\* the page sizes config.yaml gives the list request
BatchConfigs == 1 .. MaxBatch

\* what the remote store does with a list request:
\*   "full"      full pages, a continuation token until the last page
\*   "short"     pages of any positive size up to pageSize, a token while
\*               children remain
\*   "perpetual" a continuation token on every page
StoreModes == {"full", "short", "perpetual"}

\* no continuation token: results.get('nextPageToken') is None
NoToken == 0

\* The responses the store may give to files().list(pageSize=b, pageToken=tok)
\* on a folder whose children are ch. A token is the number of children
\* already returned (in "perpetual" mode: an opaque token that never ends).
StorePages(mode, ch, b, tok) ==
  LET n == Len(ch)
      page(k) == [files |-> SubSeq(ch, tok + 1, tok + k),
                  next |-> IF tok + k < n THEN tok + k ELSE NoToken]
  IN CASE mode = "full" -> {page(Min(b, n - tok))}
       [] mode = "short" ->
            IF n - tok = 0 THEN {page(0)}
            ELSE {page(k) : k \in 1 .. Min(b, n - tok)}
       [] OTHER -> {[files |-> <<>>, next |-> IF tok = 1 THEN 2 ELSE 1]}

\* mutant: the page replaces the items collected so far
ListIterationReplace(its, results) ==
  [items |-> results.files, page_token |-> results.next]

\* items.extend(results.get('files', []));
\* page_token = results.get('nextPageToken')
ListIteration(its, results) ==
  [items |-> its \o results.files, page_token |-> results.next]

\* the page counter stops counting here (it only grows past every real page
\* count when the store never ends the listing)
PageCap == MaxChildren + 2

(***************************************************************************)
(* Names and patterns: strings are sequences of one-character strings.     *)
(***************************************************************************)
\* the position of the last c in p, 0 when there is none (str.rfind)
LastIndexOf(p, c) ==
  IF \E i \in 1 .. Len(p) : p[i] = c
    THEN CHOOSE i \in 1 .. Len(p) :
           p[i] = c /\ \A j \in (i + 1) .. Len(p) : p[j] # c
    ELSE 0

\* os.path.splitext(item['name']): the extension starts at the last dot of the
\* last path component, unless only dots precede it there
SplitExt(p) ==
  LET sep == LastIndexOf(p, "/")
      dot == LastIndexOf(p, ".")
  IN IF dot > sep /\ \E k \in (sep + 1) .. (dot - 1) : p[k] # "."
       THEN [root |-> SubSeq(p, 1, dot - 1), ext |-> SubSeq(p, dot, Len(p))]
       ELSE [root |-> p, ext |-> <<>>]

\* fnmatch.fnmatch(filename, pattern) on a POSIX system, for patterns of
\* literals, '*' and '?': does pat[j..] match all of name[i..]
RECURSIVE GlobMatchFrom(_, _, _, _)
GlobMatchFrom(name, pat, i, j) ==
  IF j > Len(pat) THEN i > Len(name)
  ELSE IF pat[j] = "*"
    THEN \/ GlobMatchFrom(name, pat, i, j + 1)
         \/ i <= Len(name) /\ GlobMatchFrom(name, pat, i + 1, j)
    ELSE /\ i <= Len(name)
         /\ pat[j] = "?" \/ pat[j] = name[i]
         /\ GlobMatchFrom(name, pat, i + 1, j + 1)

FnMatch(name, pat) == GlobMatchFrom(name, pat, 1, 1)

\* re.compile raises re.error: '*' with nothing to repeat, or repeated
RegexError(re) ==
  \E j \in 1 .. Len(re) : re[j] = "*" /\ (j = 1 \/ re[j - 1] = "*")

\* re.match(regex, filename) for regexes of literals, '.' and '*': does
\* re[j..] match a prefix of name[i..]
RECURSIVE RegexMatchFrom(_, _, _, _)
RegexMatchFrom(name, re, i, j) ==
  IF j > Len(re) THEN TRUE
  ELSE LET atom(c) == re[j] = "." \/ re[j] = c
       IN IF j + 1 <= Len(re) /\ re[j + 1] = "*"
            THEN \/ RegexMatchFrom(name, re, i, j + 2)
                 \/ i <= Len(name) /\ atom(name[i])
                      /\ RegexMatchFrom(name, re, i + 1, j)
            ELSE /\ i <= Len(name)
                 /\ atom(name[i])
                 /\ RegexMatchFrom(name, re, i + 1, j + 1)

\* pattern.startswith('r:')
StartsWithMarker(pattern) ==
  Len(pattern) >= 2 /\ pattern[1] = "r" /\ pattern[2] = ":"

\* the text of a repetition count that is too large, as one element
HugeRepeat == "{4294967296}"

\* re.compile raises OverflowError: the repetition number is too large
RegexOverflow(re) == \E j \in 1 .. Len(re) : re[j] = HugeRepeat

\* an exception other than re.error leaves pattern_matches
PatternMatchesRaises(pattern) ==
  StartsWithMarker(pattern) /\ RegexOverflow(SubSeq(pattern, 3, Len(pattern)))

\* mutant: a regex that does not match falls through to the glob
PatternMatchesGlobAlso(filename, pattern) ==
  \/ /\ StartsWithMarker(pattern)
     /\ ~RegexError(SubSeq(pattern, 3, Len(pattern)))
     /\ RegexMatchFrom(filename, SubSeq(pattern, 3, Len(pattern)), 1, 1)
  \/ FnMatch(filename, pattern)

\* DriveUtilities.pattern_matches
PatternMatches(filename, pattern) ==
  IF StartsWithMarker(pattern) /\ ~RegexError(SubSeq(pattern, 3, Len(pattern)))
    THEN RegexMatchFrom(filename, SubSeq(pattern, 3, Len(pattern)), 1, 1)
    ELSE FnMatch(filename, pattern)

(***************************************************************************)
(* The remote store: item id -> [name, kind, parent]; parent 0 is the root *)
(* of the drive, and 0 also stands for an absent (None) folder id.         *)
(***************************************************************************)
FOLDER == "application/vnd.google-apps.folder"

FILE == "file"

\* the drive before the tool runs:
\*   1 "d"/  2 "a.t"  3 ".t"  4 "s"/ (7 "f.t")  5 "b.t"  6 "e"/
InitialStore ==
  [i \in 1 .. 7 |->
     CASE i = 1 -> [name |-> <<"d">>, kind |-> FOLDER, parent |-> 0]
       [] i = 2 -> [name |-> <<"a", ".", "t">>, kind |-> FILE, parent |-> 1]
       [] i = 3 -> [name |-> <<".", "t">>, kind |-> FILE, parent |-> 1]
       [] i = 4 -> [name |-> <<"s">>, kind |-> FOLDER, parent |-> 1]
       [] i = 5 -> [name |-> <<"b", ".", "t">>, kind |-> FILE, parent |-> 1]
       [] i = 6 -> [name |-> <<"e">>, kind |-> FOLDER, parent |-> 1]
       [] OTHER -> [name |-> <<"f", ".", "t">>, kind |-> FILE, parent |-> 4]]

\* the remote side as the tool sees it: the store, the id the service assigns
\* next, the number of requests made and the log of the requests
InitialRemote ==
  [store |-> InitialStore, next_id |-> 8, rpc |-> 0, log |-> <<>>]

\* the ids in set S as a sequence in increasing order
RECURSIVE SortedSeq(_)
SortedSeq(S) ==
  IF S = {} THEN <<>>
  ELSE Bind(CHOOSE x \in S : \A y \in S : x <= y,
            LAMBDA m : <<m>> \o SortedSeq(S \ {m}))

\* the files(id, name, mimeType) the store lists for "'folder_id' in parents"
ChildrenOf(st, folder_id) ==
  Bind(SortedSeq({i \in DOMAIN st : st[i].parent = folder_id}),
       LAMBDA ids :
         [k \in 1 .. Len(ids) |->
            [id |-> ids[k], name |-> st[ids[k]].name,
             mimeType |-> st[ids[k]].kind]])

(***************************************************************************)
(* DriveUtilities.extract_file_id_from_url. A URL is given by the parts     *)
(* urlparse splits it into that the code reads: its path and its query.    *)
(***************************************************************************)
\* the characters of the model's alphabet that [a-zA-Z0-9_-] matches
IdChars ==
  {"0", "1", "2", "3", "4", "5", "6", "7", "8", "9", "a", "d", "e", "f", "i",
   "l", "n", "o", "p", "r", "s", "v", "w", "z", "_", "-"}

\* the longest run of IdChars of p that starts at position i
RECURSIVE IdRun(_, _)
IdRun(p, i) ==
  IF i <= Len(p) /\ p[i] \in IdChars THEN <<p[i]>> \o IdRun(p, i + 1) ELSE <<>>

\* re.search(lit + '([a-zA-Z0-9_-]+)', p).group(1), <<>> when nothing matches
SearchId(p, lit) ==
  LET hits == {i \in 1 .. Len(p) :
                 /\ i + Len(lit) <= Len(p)
                 /\ SubSeq(p, i, i + Len(lit) - 1) = lit
                 /\ p[i + Len(lit)] \in IdChars}
  IN IF hits = {} THEN <<>>
     ELSE IdRun(p, (CHOOSE i \in hits : \A j \in hits : i <= j) + Len(lit))

\* the list patterns, in its order
UrlPatterns ==
  << <<"/", "f", "i", "l", "e", "/", "d", "/">>,
     <<"/", "f", "o", "l", "d", "e", "r", "s", "/">>,
     <<"i", "d", "=">>,
     <<"/", "d", "r", "i", "v", "e", "/">> >>

\* the position of the first c in p at or after i, Len(p) + 1 when none
RECURSIVE IndexFrom(_, _, _)
IndexFrom(p, c, i) ==
  IF i > Len(p) \/ p[i] = c THEN i ELSE IndexFrom(p, c, i + 1)

\* parse_qs(query).get('id', [None])[0]: the value of the first id=value pair
\* of q[i..] with a value that is not blank, <<>> when there is none
RECURSIVE QueryId(_, _)
QueryId(q, i) ==
  IF i > Len(q) THEN <<>>
  ELSE LET amp == IndexFrom(q, "&", i)
           pair == SubSeq(q, i, amp - 1)
           eq == IndexFrom(pair, "=", 1)
       IN IF /\ eq <= Len(pair)
             /\ SubSeq(pair, 1, eq - 1) = <<"i", "d">>
             /\ eq < Len(pair)
            THEN SubSeq(pair, eq + 1, Len(pair))
            ELSE QueryId(q, amp + 1)

\* for pattern in patterns: match = re.search(pattern, parsed_url.path) ...
RECURSIVE FirstPathMatch(_, _)
FirstPathMatch(path, k) ==
  IF k > Len(UrlPatterns) THEN <<>>
  ELSE IF SearchId(path, UrlPatterns[k]) # <<>>
    THEN SearchId(path, UrlPatterns[k])
    ELSE FirstPathMatch(path, k + 1)

\* mutant: the query parameter is read before the path patterns are tried
ExtractQueryFirst(url) ==
  IF QueryId(url.query, 1) # <<>>
    THEN QueryId(url.query, 1)
    ELSE FirstPathMatch(url.path, 1)

\* the id text, <<>> for None
ExtractFileIdFromUrl(url) ==
  IF FirstPathMatch(url.path, 1) # <<>>
    THEN FirstPathMatch(url.path, 1)
    ELSE QueryId(url.query, 1)

\* the decimal text of an item id
DigitChars == <<"0", "1", "2", "3", "4", "5", "6", "7", "8", "9">>

IdText(i) ==
  IF i < 10 THEN <<DigitChars[i + 1]>>
  ELSE <<DigitChars[(i \div 10) + 1], DigitChars[(i % 10) + 1]>>

\* an id no item of the store has
NoSuchId == 0 - 1

\* the item an id text names
ItemOf(text) ==
  IF \E i \in 1 .. 99 : IdText(i) = text
    THEN CHOOSE i \in 1 .. 99 : IdText(i) = text
    ELSE NoSuchId

VARIABLES
  max_retries,   \* self.max_retries
  retry_delay,   \* self.retry_delay
  batch_size,    \* self.batch_size
  script,        \* the request: script[i] is the status of its i-th execute()
  retry_count,   \* the local retry_count
  invoked,       \* how many times request.execute() was called
  sleeps,        \* the wait times passed to time.sleep, in order
  exec_pc,       \* "loop", "returned", "raised", "fell_through"
  exec_val,      \* the invocation whose response is returned / the status raised
  store_mode,    \* how the remote store pages its listings
  children,      \* the children of the listed folder, in the store's order
  items,         \* the local items of list_folder_contents
  page_token,    \* the local page_token (NoToken for None)
  pages,         \* how many list requests returned a page
  list_pc,       \* "idle", "fetch", "returned", "raised"
  remote,        \* the remote store and the requests made to it
  args,          \* the arguments of the item operation being run
  op_items,      \* the local items of the operation: the listing it loops over
  op_idx,        \* the position of the loop in op_items
  renamed_items, \* the local renamed_items of batch_rename
  deleted_items, \* the local deleted_items of delete_items
  copied_files,  \* the local copied_files of copy_to_subfolders
  op_val,        \* the value the operation returned
  op_run,        \* which call of the operation this is (1 or 2)
  run_start,     \* how many requests had been made when this call began
  op_pc,         \* "idle", "start", "loop", "returned", "raised"
  commands,      \* commands.get('commands', []) of the batch file
  faults,        \* which requests of the run the service fails
  cmd_idx,       \* the position of the loop of execute_batch in commands
  batch_results, \* the local results of execute_batch
  calls,         \* how each execute_batch_command ended, and the requests made by then
  ref_remote,    \* the remote side of the run of the batch without its
  ref_results,   \*   malformed commands, and the results of that run
  report,        \* the content of the report file
  batch_pc,      \* "idle", "load", "run", "done", "exited"
  clock,         \* datetime.now(), in seconds
  files,         \* the report files of the directory, by the time in their name
  run_pc,        \* of each batch run in progress: "run", "done"
  run_results,   \* of each batch run: its local results
  run_file,      \* of each batch run: the time in the name of the file written
  stored_token,  \* what the keyring holds for the service and the user name
  creds,         \* the local creds of get_credentials
  auth_env,      \* whether the refresh, the credentials file and the flow work
  auth_pc        \* "idle", "load", "check", "refresh", "flow", "save", "returned", "raised"

cfgVars == <<max_retries, retry_delay, batch_size>>

execVars == <<script, retry_count, invoked, sleeps, exec_pc, exec_val>>

retryVars == <<cfgVars, execVars>>

listVars == <<store_mode, children, items, page_token, pages, list_pc>>

opAux == <<deleted_items, copied_files, op_val, op_run, run_start>>

opVars == <<remote, args, op_items, op_idx, renamed_items, opAux, op_pc>>

authVars == <<stored_token, creds, auth_env, auth_pc>>

\* the machine the tool runs on: its clock, its report files, its keyring
fsVars == <<clock, files, run_pc, run_results, run_file, authVars>>

batchVars ==
  <<commands, faults, cmd_idx, batch_results, calls, ref_remote, ref_results, report,
    batch_pc>>

vars == <<retryVars, listVars, opVars, batchVars, fsVars>>

\* no report has been written
NoReport == [written |-> FALSE, content |-> <<>>]

\* no batch is being run
BatchIdle ==
  /\ commands = <<>>
  /\ faults = <<>>
  /\ cmd_idx = 0
  /\ batch_results = <<>>
  /\ calls = <<>>
  /\ ref_remote = <<>>
  /\ ref_results = <<>>
  /\ report = NoReport
  /\ batch_pc = "idle"

\* the executor is not being stepped
ExecIdle ==
  /\ script = <<>>
  /\ retry_count = 0
  /\ invoked = 0
  /\ sleeps = <<>>
  /\ exec_pc = "idle"
  /\ exec_val = 0

\* no listing is being stepped
ListIdle ==
  /\ store_mode = "full"
  /\ children = <<>>
  /\ items = <<>>
  /\ page_token = NoToken
  /\ pages = 0
  /\ list_pc = "idle"

\* no item operation is being stepped
OpAuxIdle ==
  /\ deleted_items = <<>>
  /\ copied_files = <<>>
  /\ op_val = 0
  /\ op_run = 1
  /\ run_start = 0

\* creds = None, and a keyring that holds nothing
NoCreds ==
  [kind |-> "none", token |-> FALSE, expired |-> FALSE, refresh_token |-> FALSE]

\* get_credentials is not being stepped
AuthIdle ==
  /\ stored_token = NoCreds
  /\ creds = NoCreds
  /\ auth_env = <<>>
  /\ auth_pc = "idle"

\* no report is being saved
FsIdle ==
  /\ clock = 0
  /\ files = <<>>
  /\ run_pc = <<>>
  /\ run_results = <<>>
  /\ run_file = <<>>
  /\ AuthIdle

OpIdle ==
  /\ remote = InitialRemote
  /\ args = <<>>
  /\ op_items = <<>>
  /\ op_idx = 0
  /\ renamed_items = <<>>
  /\ OpAuxIdle
  /\ op_pc = "idle"

RetryInit ==
  /\ max_retries \in RetryConfigs
  /\ retry_delay \in DelayConfigs
  /\ script \in [1 .. ScriptLen -> Statuses]
  /\ retry_count = 0
  /\ invoked = 0
  /\ sleeps = <<>>
  /\ exec_pc = "loop"
  /\ exec_val = 0
  /\ batch_size = 1
  /\ BatchIdle
  /\ FsIdle
  /\ ListIdle
  /\ OpIdle

\* while retry_count < self.max_retries: try: return request.execute() except ...
Execute ==
  /\ exec_pc = "loop"
  /\ retry_count < max_retries
  /\ LET status == script[invoked + 1]
         it == RetryIteration(retry_count, status, max_retries, retry_delay)
     IN /\ invoked' = invoked + 1
        /\ retry_count' = it.retry_count
        /\ sleeps' = sleeps \o it.slept
        /\ exec_pc' = it.pc
        /\ exec_val' = IF it.pc = "returned" THEN invoked + 1
                       ELSE IF it.pc = "raised" THEN status ELSE 0
  /\ UNCHANGED <<cfgVars, fsVars, script, listVars, opVars, batchVars>>

\* the loop condition is false: the function ends without a return statement
LoopExit ==
  /\ exec_pc = "loop"
  /\ ~(retry_count < max_retries)
  /\ exec_pc' = "fell_through"
  /\ exec_val' = 0
  /\ UNCHANGED <<cfgVars, fsVars, script, retry_count, invoked, sleeps, listVars, opVars,
                 batchVars>>

RetryNext == Execute \/ LoopExit

SpecRetry == RetryInit /\ [][RetryNext]_vars

(***************************************************************************)
(* Claims about _execute_with_retry, checked under SpecRetry.              *)
(***************************************************************************)
\* the statuses the specification calls retryable
ClaimRetryable == {429, 500, 503}

Ended == exec_pc \in {"returned", "raised", "fell_through"}

\* the request fails with a retryable error on every invocation
AlwaysFailsRetryably == \A i \in 1 .. ScriptLen : script[i] \in ClaimRetryable

\* the request fails retryably exactly k times and then succeeds
FailsThenSucceeds(k) ==
  /\ k + 1 <= ScriptLen
  /\ \A i \in 1 .. k : script[i] \in ClaimRetryable
  /\ script[k + 1] = HTTP_OK

\* C4: for every configured max_retries = N, a request that fails retryably on
\* every attempt is invoked exactly N times and then its error is propagated;
\* no invocation happens beyond the cap.
C4_AttemptCap ==
  /\ invoked >= 1 => invoked <= max_retries
  /\ (AlwaysFailsRetryably /\ Ended) =>
        /\ exec_pc = "raised"
        /\ invoked = max_retries
        /\ exec_val = script[invoked]

\* C5: a request that fails retryably exactly k times and then succeeds, with
\* k < max_retries, is invoked exactly k + 1 times and the executor returns the
\* response of invocation k + 1.
C5_Recovery ==
  \A k \in 0 .. (ScriptLen - 1) :
    (FailsThenSucceeds(k) /\ k < max_retries) =>
      /\ invoked <= k + 1
      /\ exec_pc = "loop" => invoked <= k
      /\ Ended => (exec_pc = "returned" /\ invoked = k + 1 /\ exec_val = k + 1)

C5_Witness ==
  /\ max_retries = 3
  /\ FailsThenSucceeds(2)
  /\ exec_pc = "returned"
  /\ invoked = 3

\* C6: a non-retryable error is propagated at once: the invocation that got it
\* is the last one, it made no sleep, and the executor has raised that error.
C6_PermanentErrorPropagates ==
  \A j \in 1 .. invoked :
    script[j] \notin (ClaimRetryable \cup {HTTP_OK}) =>
      /\ invoked = j
      /\ exec_pc = "raised"
      /\ exec_val = script[j]
      /\ Len(sleeps) = j - 1

C6_Witness ==
  /\ exec_pc = "raised"
  /\ invoked = 2
  /\ script[1] \in ClaimRetryable
  /\ script[2] \in PermanentStatus

\* the sleeps made so far: one of (2^j) * retry_delay after the j-th retryable
\* failure when j < max_retries, none after the last attempt or a success
SleepsFollowSchedule ==
  /\ \A j \in 1 .. Len(sleeps) : sleeps[j] = (2 ^ j) * retry_delay
  /\ Len(sleeps) = Cardinality({j \in 1 .. invoked :
                                  script[j] \in ClaimRetryable /\ j < max_retries})
  /\ \A j \in 1 .. (Len(sleeps) - 1) : sleeps[j + 1] = 2 * sleeps[j]

\* C7 as stated: the sleeps follow the schedule, double and strictly increase.
C7_BackoffStrictlyIncreases ==
  /\ SleepsFollowSchedule
  /\ \A j \in 1 .. (Len(sleeps) - 1) : sleeps[j + 1] > sleeps[j]

\* C7, amended: the sleeps follow the schedule and double; they strictly
\* increase when retry_delay is positive (with retry_delay = 0 every sleep is 0).
C7_BackoffSchedule ==
  /\ SleepsFollowSchedule
  /\ retry_delay > 0 => \A j \in 1 .. (Len(sleeps) - 1) : sleeps[j + 1] > sleeps[j]

C7_Witness ==
  /\ retry_delay > 0
  /\ Len(sleeps) = 2
  /\ exec_pc = "raised"
  /\ invoked = max_retries

(***************************************************************************)
(* list_folder_contents, one list request per step.                        *)
(***************************************************************************)
ListInit ==
  /\ max_retries \in WorkingRetryConfigs
  /\ retry_delay = 1
  /\ BatchIdle
  /\ FsIdle
  /\ ExecIdle
  /\ batch_size \in BatchConfigs
  /\ store_mode \in StoreModes
  /\ \E n \in 0 .. MaxChildren : children = [i \in 1 .. n |-> i]
  /\ items = <<>>
  /\ page_token = NoToken
  /\ pages = 0
  /\ list_pc = "fetch"
  /\ OpIdle

\* One iteration of the while True loop: the list request goes through
\* _execute_with_retry; its error propagates, its page is appended.
FetchPage ==
  /\ list_pc = "fetch"
  /\ \E kind \in RequestKinds :
       LET out == ExecuteWithRetry(RequestScript(kind), max_retries, retry_delay)
       IN IF out.pc = "returned"
            THEN \E results \in StorePages(store_mode, children, batch_size, page_token) :
                   LET it == ListIteration(items, results)
                   IN /\ items' = it.items
                      /\ page_token' = it.page_token
                      /\ pages' = Min(pages + 1, PageCap)
                      /\ list_pc' = IF it.page_token = NoToken THEN "returned"
                                    ELSE "fetch"
            ELSE /\ list_pc' = "raised"
                 /\ UNCHANGED <<items, page_token, pages>>
  /\ UNCHANGED <<retryVars, fsVars, store_mode, children, opVars, batchVars>>

ListNext == FetchPage

SpecList == ListInit /\ [][ListNext]_vars

\* the listing loop keeps running while it is not ended
FairSpecList == SpecList /\ WF_vars(FetchPage)

(***************************************************************************)
(* Claims about list_folder_contents.                                      *)
(***************************************************************************)
ListEnded == list_pc \in {"returned", "raised"}

\* ceil(n / b), and one page for an empty folder
PagesNeeded(n, b) == IF n = 0 THEN 1 ELSE (n + b - 1) \div b

\* C8: against a store that returns full pages with a continuation token until
\* the last page, a listing that returns has fetched exactly ceil(n / batch_size)
\* pages (one when n = 0) and returns exactly the n children, each once, in the
\* store's order; until then it holds the children of the pages fetched so far.
C8_FullPagesListing ==
  store_mode = "full" =>
    /\ list_pc = "returned" =>
         /\ pages = PagesNeeded(Len(children), batch_size)
         /\ items = children
    /\ list_pc = "fetch" =>
         /\ pages * batch_size < Len(children) \/ pages = 0
         /\ items = SubSeq(children, 1, pages * batch_size)

C8_Witness ==
  /\ store_mode = "full"
  /\ list_pc = "returned"
  /\ Len(children) = 5
  /\ batch_size = 2
  /\ pages = 3
  /\ items = children

\* C9: the listing terminates for every store behaviour: an empty folder gives
\* an empty sequence after one page, and the loop ends whatever the store does.
C9_ListTerminates ==
  /\ []((store_mode # "perpetual" /\ children = <<>> /\ list_pc = "returned")
          => (pages = 1 /\ items = <<>>))
  /\ <>ListEnded

(***************************************************************************)
(* Requests to the remote store, made through _execute_with_retry.         *)
(* An oracle orc says how the service answers the k-th request made:       *)
(* orc[k] is a member of RequestKinds, and "ok" when k is not in its       *)
(* domain. A request naming an id the store does not hold is answered 404. *)
(***************************************************************************)
NoFaults == <<>>

FaultOf(orc, k) == IF k \in DOMAIN orc THEN orc[k] ELSE "ok"

\* self._execute_with_retry(self.service.files().<op>(... id ...)): the
\* position the executor ends in, and the remote side with the request logged.
\* present: the store holds every item the request names.
CallOn(ctx, orc, op, id, present) ==
  Bind(ExecuteWithRetry(RequestScript(IF present
                                        THEN FaultOf(orc, ctx.rpc + 1)
                                        ELSE "gone"),
                        max_retries, retry_delay),
       LAMBDA out :
         [pc |-> out.pc,
          ctx |-> [ctx EXCEPT !.rpc = @ + 1,
                              !.log = Append(@, [op |-> op, id |-> id,
                                                 ok |-> out.pc = "returned"])]])

Call(ctx, orc, op, id) == CallOn(ctx, orc, op, id, id \in DOMAIN ctx.store)

\* the page a store that pages in full pages returns for the children of
\* folder_id from token tok on, b items to the page
FullPage(st, folder_id, b, tok) ==
  Bind(ChildrenOf(st, folder_id),
       LAMBDA ch : CHOOSE r \in StorePages("full", ch, b, tok) : TRUE)

\* list_folder_contents as a whole, against a store that pages in full pages:
\* the loop of ListIteration from (items, page_token) = (its, tok). A list
\* request that raises ends it; so does one that returns None (results.get
\* then raises AttributeError).
RECURSIVE ListPages(_, _, _, _, _)
ListPages(ctx, orc, folder_id, its, tok) ==
  Bind(Call(ctx, orc, "list", folder_id),
       LAMBDA call :
         IF call.pc # "returned"
           THEN [pc |-> "raised", ctx |-> call.ctx, items |-> <<>>]
           ELSE Bind(ListIteration(its, FullPage(call.ctx.store, folder_id,
                                                 batch_size, tok)),
                     LAMBDA it :
                       IF it.page_token = NoToken
                         THEN [pc |-> "returned", ctx |-> call.ctx,
                               items |-> it.items]
                         ELSE ListPages(call.ctx, orc, folder_id, it.items,
                                        it.page_token)))

ListFolderContents(ctx, orc, folder_id) ==
  ListPages(ctx, orc, folder_id, <<>>, NoToken)

(***************************************************************************)
(* DriveManager.batch_rename                                               *)
(***************************************************************************)
\* mutant: the test reads `if not prefix and suffix`
MissingAffixInverted(prefix, suffix) == prefix = <<>> /\ suffix # <<>>

\* not prefix and not suffix: the test of batch_rename that raises ValueError
MissingAffix(prefix, suffix) == prefix = <<>> /\ suffix = <<>>

\* new_name = f"{prefix or ''}{name}{suffix or ''}{ext}"; an absent (None)
\* prefix or suffix is the empty string here: both are falsy
NewName(name, prefix, suffix) ==
  LET se == SplitExt(name)
  IN prefix \o se.root \o suffix \o se.ext

\* the store with item id renamed
SetName(ctx, id, new_name) ==
  [ctx EXCEPT !.store = [@ EXCEPT ![id] = [@ EXCEPT !.name = new_name]]]

\* mutant: the pair is appended outside the try block
RenameItemReportsFailure(ctx, orc, item, pattern, prefix, suffix) ==
  IF PatternMatches(item.name, pattern)
    THEN LET new_name == NewName(item.name, prefix, suffix)
         IN Bind(Call(ctx, orc, "update", item.id),
                 LAMBDA call :
                   [ctx |-> IF call.pc = "returned"
                              THEN SetName(call.ctx, item.id, new_name)
                              ELSE call.ctx,
                    renamed |-> <<<<item.name, new_name>>>>])
    ELSE [ctx |-> ctx, renamed |-> <<>>]

\* The body of the for loop over items: the update request of a matching item;
\* an HttpError is caught and logged, the pair is appended otherwise.
RenameItem(ctx, orc, item, pattern, prefix, suffix) ==
  IF PatternMatches(item.name, pattern)
    THEN LET new_name == NewName(item.name, prefix, suffix)
         IN Bind(Call(ctx, orc, "update", item.id),
                 LAMBDA call :
                   [ctx |-> IF call.pc = "returned"
                              THEN SetName(call.ctx, item.id, new_name)
                              ELSE call.ctx,
                    renamed |-> IF call.pc = "raised" THEN <<>>
                                ELSE <<<<item.name, new_name>>>>])
    ELSE [ctx |-> ctx, renamed |-> <<>>]

\* the calls batch_rename(folder_id, pattern, prefix, suffix) of the model
RenamePatterns ==
  { <<"*", ".", "t">>, <<"*">>, <<"?", ".", "t">>, <<"z">>,
    <<"r", ":", "a">>, <<"r", ":", ".", "*", "t">>, <<"r", ":", "*">> }

RenameCalls ==
  [folder_id : {1, 4, 9}, pattern : RenamePatterns,
   prefix : {<<>>, <<"X">>}, suffix : {<<>>, <<"Y">>}]

\* the oracles of one listing: no fault, or a fault at one of its requests
ListOracles(ctx) ==
  {NoFaults} \cup
  {(ctx.rpc + k) :> kind : k \in 1 .. 2, kind \in {"flaky", "down"}}

RenameInit ==
  /\ max_retries \in WorkingRetryConfigs
  /\ retry_delay = 1
  /\ batch_size = 2
  /\ BatchIdle
  /\ FsIdle
  /\ ExecIdle
  /\ ListIdle
  /\ remote = InitialRemote
  /\ args \in RenameCalls
  /\ op_items = <<>>
  /\ op_idx = 0
  /\ renamed_items = <<>>
  /\ OpAuxIdle
  /\ op_pc = "start"

\* if not prefix and not suffix: raise ValueError(...)
RenameRejected ==
  /\ op_pc = "start"
  /\ MissingAffix(args.prefix, args.suffix)
  /\ op_pc' = "raised"
  /\ UNCHANGED <<retryVars, fsVars, listVars, remote, args, op_items, op_idx,
                 renamed_items, opAux, batchVars>>

\* renamed_items = []; items = self.list_folder_contents(folder_id)
RenameList ==
  /\ op_pc = "start"
  /\ ~MissingAffix(args.prefix, args.suffix)
  /\ \E orc \in ListOracles(remote) :
       \E ls \in {ListFolderContents(remote, orc, args.folder_id)} :
          /\ remote' = ls.ctx
          /\ op_items' = ls.items
          /\ op_idx' = 1
          /\ op_pc' = IF ls.pc = "returned" THEN "loop" ELSE "raised"
  /\ UNCHANGED <<retryVars, fsVars, listVars, args, renamed_items, opAux, batchVars>>

\* one iteration of: for item in items
RenameStep ==
  /\ op_pc = "loop"
  /\ op_idx <= Len(op_items)
  /\ \E kind \in RequestKinds :
       LET r == RenameItem(remote, (remote.rpc + 1) :> kind, op_items[op_idx],
                           args.pattern, args.prefix, args.suffix)
       IN /\ remote' = r.ctx
          /\ renamed_items' = renamed_items \o r.renamed
  /\ op_idx' = op_idx + 1
  /\ UNCHANGED <<retryVars, fsVars, listVars, args, op_items, op_pc, opAux, batchVars>>

\* return renamed_items
RenameReturn ==
  /\ op_pc = "loop"
  /\ op_idx > Len(op_items)
  /\ op_pc' = "returned"
  /\ UNCHANGED <<retryVars, fsVars, listVars, remote, args, op_items, op_idx,
                 renamed_items, opAux, batchVars>>

RenameNext == RenameRejected \/ RenameList \/ RenameStep \/ RenameReturn

SpecRename == RenameInit /\ [][RenameNext]_vars

(***************************************************************************)
(* Claims about batch_rename, checked under SpecRename.                    *)
(***************************************************************************)
IsUpdate(e) == e.op = "update"

RenameMatches(it) == PatternMatches(it.name, args.pattern)

\* the update requests made so far, in order
UpdatesMade == SelectSeq(remote.log, IsUpdate)

\* the items of the listing the loop has gone through that match the pattern
MatchesDone == SelectSeq(SubSeq(op_items, 1, op_idx - 1), RenameMatches)

\* the pairs (old name, new name) of the k-th up to the last of the matching
\* items gone through whose update request succeeded
RECURSIVE PairsOfSucceeded(_)
PairsOfSucceeded(k) ==
  IF k > Len(MatchesDone) THEN <<>>
  ELSE (IF UpdatesMade[k].ok
          THEN << <<MatchesDone[k].name,
                    args.prefix \o SplitExt(MatchesDone[k].name).root
                      \o args.suffix \o SplitExt(MatchesDone[k].name).ext>> >>
          ELSE <<>>) \o PairsOfSucceeded(k + 1)

\* C10: batch_rename attempts an update for every listed child that matches the
\* pattern, whatever happened to earlier items, and returns exactly the pairs
\* (old name, prefix + stem + suffix + extension) of the matching items whose
\* update succeeded, in listing order; an item whose update failed keeps its
\* old name, and nothing else in the store changes.
C10_RenamePartialSuccess ==
  op_pc \in {"loop", "returned"} =>
    /\ op_items = ChildrenOf(InitialStore, args.folder_id)
    /\ op_pc = "returned" => op_idx = Len(op_items) + 1
    /\ Len(UpdatesMade) = Len(MatchesDone)
    /\ \A k \in 1 .. Len(MatchesDone) : UpdatesMade[k].id = MatchesDone[k].id
    /\ renamed_items = PairsOfSucceeded(1)
    /\ \A k \in 1 .. Len(MatchesDone) :
         remote.store[MatchesDone[k].id].name =
           IF UpdatesMade[k].ok
             THEN args.prefix \o SplitExt(MatchesDone[k].name).root
                    \o args.suffix \o SplitExt(MatchesDone[k].name).ext
             ELSE MatchesDone[k].name
    /\ \A i \in DOMAIN InitialStore :
         (\A k \in 1 .. Len(MatchesDone) : MatchesDone[k].id # i)
           => remote.store[i] = InitialStore[i]
    /\ DOMAIN remote.store = DOMAIN InitialStore

\* the first matching item failed, the later ones were still renamed
C10_Witness ==
  /\ op_pc = "returned"
  /\ args.folder_id = 1
  /\ args.pattern = <<"*", ".", "t">>
  /\ args.prefix = <<"X">>
  /\ args.suffix = <<"Y">>
  /\ Len(UpdatesMade) = 3
  /\ ~UpdatesMade[1].ok
  /\ renamed_items = << << <<".", "t">>, <<"X", ".", "t", "Y">> >>,
                        << <<"b", ".", "t">>, <<"X", "b", "Y", ".", "t">> >> >>
  /\ remote.store[2].name = <<"a", ".", "t">>
  /\ remote.store[5].name = <<"X", "b", "Y", ".", "t">>

\* the requests made by the call of the operation in progress
RequestsOfRun == SubSeq(remote.log, run_start + 1, Len(remote.log))

\* C11: batch_rename called with neither prefix nor suffix fails with a
\* validation error before any request: no list and no update request is made,
\* the remote store is unchanged, and nothing is retried (the call ends at
\* once, raised).
C11_RenameValidatedFirst ==
  (op_pc # "idle" /\ args.prefix = <<>> /\ args.suffix = <<>>) =>
    /\ op_pc \in {"start", "raised"}
    /\ remote = InitialRemote
    /\ RequestsOfRun = <<>>
    /\ renamed_items = <<>>

\* the call with neither prefix nor suffix has raised
C11_Witness ==
  /\ op_pc = "raised"
  /\ args.prefix = <<>>
  /\ args.suffix = <<>>
  /\ args.folder_id = 1
  /\ args.pattern = <<"*">>
  /\ remote.log = <<>>

\* C12: a rename is valid only with exactly one of prefix and suffix: with
\* both absent it is rejected, and with both given it is rejected too (no
\* request is made and nothing is renamed).
C12_ExactlyOneAffix ==
  (op_pc # "idle" /\ (args.prefix = <<>>) = (args.suffix = <<>>)) =>
    /\ op_pc \in {"start", "raised"}
    /\ RequestsOfRun = <<>>
    /\ renamed_items = <<>>

(***************************************************************************)
(* The item operations as wholes: each gives the position it ends in       *)
(* ("returned" or "raised"), the remote side after it, its return value    *)
(* and, when it raises, the class of the exception.                        *)
(***************************************************************************)
Returned(ctx, val) == [pc |-> "returned", ctx |-> ctx, val |-> val, err |-> ""]

Raised(ctx, err) == [pc |-> "raised", ctx |-> ctx, val |-> <<>>, err |-> err]

\* how a request that did not return ends the operation around it: HttpError,
\* or the error of reading a field of the None it returned
CallError(call, on_none) == IF call.pc = "raised" THEN "HttpError" ELSE on_none

\* for item in items (from the k-th on): the loop of batch_rename
RECURSIVE RenameLoop(_, _, _, _, _, _, _, _)
RenameLoop(ctx, orc, its, k, pattern, prefix, suffix, acc) ==
  IF k > Len(its) THEN Returned(ctx, acc)
  ELSE Bind(RenameItem(ctx, orc, its[k], pattern, prefix, suffix),
            LAMBDA r : RenameLoop(r.ctx, orc, its, k + 1, pattern, prefix,
                                  suffix, acc \o r.renamed))

\* DriveManager.batch_rename
BatchRename(ctx, orc, folder_id, pattern, prefix, suffix) ==
  IF MissingAffix(prefix, suffix) THEN Raised(ctx, "ValueError")
  ELSE Bind(ListFolderContents(ctx, orc, folder_id),
            LAMBDA ls :
              IF ls.pc = "returned"
                THEN RenameLoop(ls.ctx, orc, ls.items, 1, pattern, prefix,
                                suffix, <<>>)
                ELSE Raised(ls.ctx, "HttpError"))

\* the items below item id, at any depth
RECURSIVE Descendants(_, _)
Descendants(st, id) ==
  Bind({i \in DOMAIN st : st[i].parent = id},
       LAMBDA kids : kids \cup UNION {Descendants(st, k) : k \in kids})

\* mutant: the item is only marked trashed and stays in the listings
RemoveItemTrashes(ctx, id) == ctx

\* files().delete(fileId): the item goes, and with a folder all it holds
RemoveItem(ctx, id) ==
  Bind({id} \cup Descendants(ctx.store, id),
       LAMBDA gone :
         [ctx EXCEPT !.store = [i \in (DOMAIN ctx.store) \ gone |->
                                  ctx.store[i]]])

\* mutant: the name is appended outside the try block
DeleteItemReportsFailure(ctx, orc, item, pattern) ==
  IF PatternMatches(item.name, pattern)
    THEN Bind(Call(ctx, orc, "delete", item.id),
              LAMBDA call :
                [ctx |-> IF call.pc = "returned"
                           THEN RemoveItem(call.ctx, item.id)
                           ELSE call.ctx,
                 deleted |-> <<item.name>>])
    ELSE [ctx |-> ctx, deleted |-> <<>>]

\* the body of the for loop of delete_items
DeleteItem(ctx, orc, item, pattern) ==
  IF PatternMatches(item.name, pattern)
    THEN Bind(Call(ctx, orc, "delete", item.id),
              LAMBDA call :
                [ctx |-> IF call.pc = "returned"
                           THEN RemoveItem(call.ctx, item.id)
                           ELSE call.ctx,
                 deleted |-> IF call.pc = "raised" THEN <<>>
                             ELSE <<item.name>>])
    ELSE [ctx |-> ctx, deleted |-> <<>>]

RECURSIVE DeleteLoop(_, _, _, _, _, _)
DeleteLoop(ctx, orc, its, k, pattern, acc) ==
  IF k > Len(its) THEN Returned(ctx, acc)
  ELSE Bind(DeleteItem(ctx, orc, its[k], pattern),
            LAMBDA r : DeleteLoop(r.ctx, orc, its, k + 1, pattern,
                                  acc \o r.deleted))

\* DriveManager.delete_items
DeleteItems(ctx, orc, folder_id, pattern) ==
  Bind(ListFolderContents(ctx, orc, folder_id),
       LAMBDA ls :
         IF ls.pc = "returned"
           THEN DeleteLoop(ls.ctx, orc, ls.items, 1, pattern, <<>>)
           ELSE Raised(ls.ctx, "HttpError"))

\* DriveManager.get_file_metadata; a request that returns None makes the
\* caller's metadata[...] raise TypeError
GetFileMetadata(ctx, orc, file_id) ==
  Bind(Call(ctx, orc, "get", file_id),
       LAMBDA call :
         IF call.pc = "returned"
           THEN Returned(call.ctx, [id |-> file_id,
                                    name |-> call.ctx.store[file_id].name,
                                    mimeType |-> call.ctx.store[file_id].kind])
           ELSE Raised(call.ctx, CallError(call, "TypeError")))

\* the store with a new item, whose id the service assigns
AddItem(ctx, name, kind, parent) ==
  [ctx EXCEPT !.store = (ctx.next_id :> [name |-> name, kind |-> kind,
                                         parent |-> parent]) @@ @,
              !.next_id = @ + 1]

\* mutant: the body of the copy request never names a parent
CopyFileInPlace(ctx, orc, file_id, parent_id, new_name) ==
  Bind(CallOn(ctx, orc, "copy", file_id,
              /\ file_id \in DOMAIN ctx.store
              /\ parent_id = 0 \/ parent_id \in DOMAIN ctx.store),
       LAMBDA call :
         IF call.pc = "returned"
           THEN Returned(AddItem(call.ctx,
                                 IF new_name # <<>> THEN new_name
                                 ELSE call.ctx.store[file_id].name,
                                 call.ctx.store[file_id].kind,
                                 call.ctx.store[file_id].parent),
                         call.ctx.next_id)
           ELSE Raised(call.ctx, CallError(call, "TypeError")))

\* DriveManager._copy_file: body = {'parents': [parent_id]} if parent_id else {},
\* plus the name when new_name is given. The service keeps the name and the
\* parent of the source for what the body leaves out.
CopyFile(ctx, orc, file_id, parent_id, new_name) ==
  Bind(CallOn(ctx, orc, "copy", file_id,
              /\ file_id \in DOMAIN ctx.store
              /\ parent_id = 0 \/ parent_id \in DOMAIN ctx.store),
       LAMBDA call :
         IF call.pc = "returned"
           THEN Returned(AddItem(call.ctx,
                                 IF new_name # <<>> THEN new_name
                                 ELSE call.ctx.store[file_id].name,
                                 call.ctx.store[file_id].kind,
                                 IF parent_id # 0 THEN parent_id
                                 ELSE call.ctx.store[file_id].parent),
                         call.ctx.next_id)
           ELSE Raised(call.ctx, CallError(call, "TypeError")))

\* copy_drive_item, _copy_folder and the loop of _copy_folder over the listed
\* children; depth counts the nested copy_drive_item calls, and the call that
\* would exceed MaxCopyDepth raises RecursionError.
RECURSIVE CopyDriveItem(_, _, _, _, _, _)
RECURSIVE CopyFolder(_, _, _, _, _, _)
RECURSIVE CopyChildren(_, _, _, _, _, _)
\* mutant: each child is copied in a try block of its own and a failure is
\* logged and skipped
CopyChildrenIsolated(ctx, orc, its, k, new_folder_id, depth) ==
  IF k > Len(its) THEN Returned(ctx, new_folder_id)
  ELSE Bind(CopyDriveItem(ctx, orc, its[k].id, new_folder_id, <<>>, depth + 1),
            LAMBDA r : CopyChildren(r.ctx, orc, its, k + 1, new_folder_id, depth))

CopyChildren(ctx, orc, its, k, new_folder_id, depth) ==
  IF k > Len(its) THEN Returned(ctx, new_folder_id)
  ELSE Bind(CopyDriveItem(ctx, orc, its[k].id, new_folder_id, <<>>, depth + 1),
            LAMBDA r :
              IF r.pc = "returned"
                THEN CopyChildren(r.ctx, orc, its, k + 1, new_folder_id, depth)
                ELSE r)

\* _copy_folder from the create request on, folder_metadata being md
CopyFolderInto(md, orc, folder_id, parent_id, new_name, depth) ==
  Bind(CallOn(md.ctx, orc, "create", parent_id,
              parent_id = 0 \/ parent_id \in DOMAIN md.ctx.store),
       LAMBDA call :
         IF call.pc # "returned"
           THEN Raised(call.ctx, CallError(call, "TypeError"))
           ELSE Bind(ListFolderContents(
                       AddItem(call.ctx,
                               IF new_name # <<>> THEN new_name
                               ELSE md.val.name,
                               FOLDER, parent_id),
                       orc, folder_id),
                     LAMBDA ls :
                       IF ls.pc # "returned" THEN Raised(ls.ctx, "HttpError")
                       ELSE CopyChildren(ls.ctx, orc, ls.items, 1,
                                         call.ctx.next_id, depth)))

CopyFolder(ctx, orc, folder_id, parent_id, new_name, depth) ==
  Bind(GetFileMetadata(ctx, orc, folder_id),
       LAMBDA md :
         IF md.pc # "returned" THEN md
         ELSE CopyFolderInto(md, orc, folder_id, parent_id, new_name, depth))

CopyDriveItem(ctx, orc, item_id, destination_folder_id, new_name, depth) ==
  IF depth > MaxCopyDepth THEN Raised(ctx, "RecursionError")
  ELSE Bind(GetFileMetadata(ctx, orc, item_id),
            LAMBDA md :
              IF md.pc # "returned" THEN md
              ELSE IF md.val.mimeType = FOLDER
                THEN CopyFolder(md.ctx, orc, item_id, destination_folder_id,
                                new_name, depth)
                ELSE CopyFile(md.ctx, orc, item_id, destination_folder_id,
                              new_name))

\* mutant: copied_files.append is outside the try block, with the id the copy
\* would have had
FanOutItemReportsFailure(ctx, orc, folder, source_file_id) ==
  Bind(CopyDriveItem(ctx, orc, source_file_id, folder.id, <<>>, 1),
       LAMBDA r : [ctx |-> r.ctx,
                   copied |-> IF r.pc = "returned" THEN <<r.val>>
                              ELSE <<r.ctx.next_id>>])

\* the body of the loop of copy_to_subfolders: a copy that raises is logged
\* and skipped
FanOutItem(ctx, orc, folder, source_file_id) ==
  Bind(CopyDriveItem(ctx, orc, source_file_id, folder.id, <<>>, 1),
       LAMBDA r : [ctx |-> r.ctx,
                   copied |-> IF r.pc = "returned" THEN <<r.val>> ELSE <<>>])

RECURSIVE FanOutLoop(_, _, _, _, _, _)
FanOutLoop(ctx, orc, folders, k, source_file_id, acc) ==
  IF k > Len(folders) THEN Returned(ctx, acc)
  ELSE Bind(FanOutItem(ctx, orc, folders[k], source_file_id),
            LAMBDA r : FanOutLoop(r.ctx, orc, folders, k + 1, source_file_id,
                                  acc \o r.copied))

IsFolderItem(it) == it.mimeType = FOLDER

\* the files the service lists for "'folder_id' in parents and mimeType =
\* folder" in answer to one request that names no page size
SubfoldersListed(st, folder_id) ==
  Bind(SelectSeq(ChildrenOf(st, folder_id), IsFolderItem),
       LAMBDA all : (CHOOSE r \in StorePages("full", all, DefaultPageSize,
                                             NoToken) : TRUE).files)

\* copy_to_subfolders up to its loop: one list request (no pageToken is
\* followed), then the metadata of the source; val is subfolders
FanOutStart(ctx, orc, source_file_id, folder_id) ==
  Bind(Call(ctx, orc, "list", folder_id),
       LAMBDA call :
         IF call.pc # "returned"
           THEN Raised(call.ctx, CallError(call, "AttributeError"))
           ELSE Bind(GetFileMetadata(call.ctx, orc, source_file_id),
                     LAMBDA md :
                       IF md.pc # "returned" THEN md
                       ELSE Returned(md.ctx,
                                     SubfoldersListed(call.ctx.store, folder_id))))

\* DriveManager.copy_to_subfolders
CopyToSubfolders(ctx, orc, source_file_id, folder_id) ==
  Bind(FanOutStart(ctx, orc, source_file_id, folder_id),
       LAMBDA st :
         IF st.pc # "returned" THEN st
         ELSE FanOutLoop(st.ctx, orc, st.val, 1, source_file_id, <<>>))

(***************************************************************************)
(* DriveManager.copy_to_subfolders, stepped subfolder by subfolder, on a   *)
(* store whose folder 1 holds the file 2 and a number of subfolders.       *)
(***************************************************************************)
FanOutStore(n) ==
  [i \in 1 .. n + 2 |->
     IF i = 1 THEN [name |-> <<"d">>, kind |-> FOLDER, parent |-> 0]
     ELSE IF i = 2 THEN [name |-> <<"a", ".", "t">>, kind |-> FILE, parent |-> 1]
     ELSE [name |-> <<"s">>, kind |-> FOLDER, parent |-> 1]]

FanOutCalls == [source_file_id : {2, 99}, folder_id : {1, 98}]

\* the oracles of one step: no fault, or a fault at one of its two requests
StepOracles(ctx) ==
  {NoFaults} \cup
  {(ctx.rpc + k) :> kind : k \in 1 .. 2, kind \in {"flaky", "down", "gone"}}

FanOutInit ==
  /\ max_retries \in WorkingRetryConfigs
  /\ retry_delay = 1
  /\ batch_size = 2
  /\ BatchIdle
  /\ FsIdle
  /\ ExecIdle
  /\ ListIdle
  /\ \E n \in 0 .. MaxSubfolders :
       remote = [store |-> FanOutStore(n), next_id |-> n + 3, rpc |-> 0,
                 log |-> <<>>]
  /\ args \in FanOutCalls
  /\ op_items = <<>>
  /\ op_idx = 0
  /\ renamed_items = <<>>
  /\ OpAuxIdle
  /\ op_pc = "start"

\* copied_files = []; subfolders = ...list(...); source_metadata = ...
FanOutList ==
  /\ op_pc = "start"
  /\ \E orc \in StepOracles(remote) :
       \E st \in {FanOutStart(remote, orc, args.source_file_id, args.folder_id)} :
          /\ remote' = st.ctx
          /\ op_items' = st.val
          /\ op_idx' = 1
          /\ op_pc' = IF st.pc = "returned" THEN "loop" ELSE "raised"
  /\ UNCHANGED <<retryVars, fsVars, listVars, args, renamed_items, opAux, batchVars>>

\* one iteration of: for folder in subfolders
FanOutStep ==
  /\ op_pc = "loop"
  /\ op_idx <= Len(op_items)
  /\ \E orc \in StepOracles(remote) :
       \E r \in {FanOutItem(remote, orc, op_items[op_idx], args.source_file_id)} :
          /\ remote' = r.ctx
          /\ copied_files' = copied_files \o r.copied
  /\ op_idx' = op_idx + 1
  /\ UNCHANGED <<retryVars, fsVars, listVars, args, op_items, renamed_items,
                 deleted_items, op_val, op_run, run_start, op_pc, batchVars>>

\* return copied_files
FanOutReturn ==
  /\ op_pc = "loop"
  /\ op_idx > Len(op_items)
  /\ op_pc' = "returned"
  /\ UNCHANGED <<retryVars, fsVars, listVars, remote, args, op_items, op_idx,
                 renamed_items, opAux, batchVars>>

FanOutNext == FanOutList \/ FanOutStep \/ FanOutReturn

SpecFanOut == FanOutInit /\ [][FanOutNext]_vars

(***************************************************************************)
(* DriveManager.copy_drive_item as one step, with at most one request of   *)
(* the call failing.                                                       *)
(***************************************************************************)
CopyCalls ==
  [item_id : {1, 2, 4, 99}, destination : {0, 4, 6, 98},
   new_name : {<<>>, <<"n">>}]

CopyOracles ==
  {NoFaults} \cup
  {k :> kind : k \in 1 .. MaxCopyRequests, kind \in {"down", "gone"}}

CopyInit ==
  /\ max_retries = MaxRetriesCfg
  /\ retry_delay = 1
  /\ batch_size = 2
  /\ BatchIdle
  /\ FsIdle
  /\ ExecIdle
  /\ ListIdle
  /\ remote = InitialRemote
  /\ args \in [call : CopyCalls, orc : CopyOracles]
  /\ op_items = <<>>
  /\ op_idx = 0
  /\ renamed_items = <<>>
  /\ OpAuxIdle
  /\ op_pc = "start"

\* copy_drive_item(item_id, destination_folder_id, new_name)
CopyRun ==
  /\ op_pc = "start"
  /\ \E r \in {CopyDriveItem(remote, args.orc, args.call.item_id,
                             args.call.destination, args.call.new_name, 1)} :
       /\ remote' = r.ctx
       /\ op_val' = [id |-> IF r.pc = "returned" THEN r.val ELSE 0, err |-> r.err]
       /\ op_pc' = r.pc
  /\ UNCHANGED <<retryVars, fsVars, listVars, args, op_items, op_idx,
                 renamed_items, deleted_items, copied_files, op_run, run_start,
                 batchVars>>

CopyNext == CopyRun

SpecCopy == CopyInit /\ [][CopyNext]_vars

(***************************************************************************)
(* Claims about copy_drive_item, checked under SpecCopy.                   *)
(***************************************************************************)
\* the items the call created
Created == (DOMAIN remote.store) \ (DOMAIN InitialStore)

IsOkCreation(e) == e.op \in {"create", "copy"} /\ e.ok

HasName(S, name) == \E i \in S : remote.store[i].name = name

\* C17: a folder copy aborts on the first nested failure and rolls nothing
\* back: the request that fails is the last request of the call and the call
\* raises, so no later sibling or descendant is copied; the folders and copies
\* created before the failure remain in the store, and the source is as it
\* was.
C17_FolderCopyAborts ==
  op_pc \in {"returned", "raised"} =>
    /\ \A k \in 1 .. Len(remote.log) :
         ~remote.log[k].ok => k = Len(remote.log) /\ op_pc = "raised"
    /\ op_pc = "raised" =>
         \/ remote.log # <<>> /\ ~remote.log[Len(remote.log)].ok
         \/ op_val.err = "RecursionError"
    /\ \A i \in DOMAIN InitialStore :
         i \in DOMAIN remote.store /\ remote.store[i] = InitialStore[i]
    /\ Cardinality(Created) = Len(SelectSeq(remote.log, IsOkCreation))

\* the copy of folder 1 failed at its fourth child: the new folder, the copies
\* of the first two files and of folder s with its file are there, and there
\* is no copy of the later children b.t and e
C17_Witness ==
  /\ op_pc = "raised"
  /\ args.call.item_id = 1
  /\ args.call.destination = 0
  /\ args.call.new_name = <<"n">>
  /\ ~remote.log[Len(remote.log)].ok
  /\ Cardinality(Created) = 5
  /\ HasName(Created, <<"n">>)
  /\ HasName(Created, <<"a", ".", "t">>)
  /\ HasName(Created, <<"s">>)
  /\ HasName(Created, <<"f", ".", "t">>)
  /\ ~HasName(Created, <<"b", ".", "t">>)
  /\ ~HasName(Created, <<"e">>)

(***************************************************************************)
(* Claims about copy_to_subfolders, checked under SpecFanOut.              *)
(***************************************************************************)
\* the Folder-kind children of the folder of the call
Subfolders ==
  {i \in DOMAIN remote.store :
     remote.store[i].kind = FOLDER /\ remote.store[i].parent = args.folder_id}

\* the copies made of the source: the files of the store other than it
Copies == {i \in DOMAIN remote.store : i # 2 /\ remote.store[i].kind = FILE}

IsGet(e) == e.op = "get"

IsOkCopy(e) == e.op = "copy" /\ e.ok

IsFailure(e) == ~e.ok

\* C15: when no request fails, copy_to_subfolders places one copy of the
\* source in every immediate Folder-kind child of the folder and nowhere
\* else, however many subfolders there are (more than one page of a listing
\* included), and returns one new id per subfolder.
C15_FanOutCoversAll ==
  (op_pc = "returned" /\ SelectSeq(remote.log, IsFailure) = <<>>) =>
    /\ \A f \in Subfolders :
         Cardinality({c \in Copies : remote.store[c].parent = f}) = 1
    /\ \A c \in Copies : remote.store[c].parent \in Subfolders
    /\ Len(copied_files) = Cardinality(Subfolders)

\* the position in the listing of the subfolder that holds copy c
ListedAt(c) ==
  CHOOSE k \in 1 .. Len(op_items) : op_items[k].id = remote.store[c].parent

\* C16: in copy_to_subfolders a copy that fails is skipped and the copies into
\* the remaining subfolders are still attempted: every subfolder listed is
\* gone through, each with its own attempt, and the ids returned are exactly
\* those of the copies that succeeded, in the order of the listing.
C16_FanOutIsolatesFailures ==
  op_pc \in {"loop", "returned"} =>
    /\ op_pc = "returned" => op_idx = Len(op_items) + 1
    /\ Len(SelectSeq(remote.log, IsGet)) = op_idx
    /\ copied_files = SortedSeq(Copies)
    /\ Cardinality(Copies) = Len(SelectSeq(remote.log, IsOkCopy))
    /\ \A c \in Copies :
         /\ \E k \in 1 .. op_idx - 1 : op_items[k].id = remote.store[c].parent
         /\ remote.store[c].name = remote.store[2].name
    /\ \A c, e \in Copies : c < e => ListedAt(c) < ListedAt(e)
    /\ (op_idx - 1) - Cardinality(Copies) =
         Len(SelectSeq(SubSeq(remote.log, 3, Len(remote.log)), IsFailure))

\* of the two subfolders listed the copy into the first failed and the copy
\* into the second was made and is the one returned
C16_Witness ==
  /\ op_pc = "returned"
  /\ Len(op_items) = 2
  /\ Len(copied_files) = 1
  /\ remote.store[copied_files[1]].parent = op_items[2].id
  /\ \E k \in 1 .. Len(remote.log) :
       remote.log[k].op = "copy" /\ ~remote.log[k].ok

(***************************************************************************)
(* DriveManager.delete_items, stepped item by item; the operation may be   *)
(* called a second time with the same arguments once it has returned.      *)
(***************************************************************************)
DeletePatterns ==
  { <<"*", ".", "t">>, <<"*">>, <<"s">>, <<"z">>, <<"r", ":", "a">> }

DeleteCalls == [folder_id : {1, 4, 9}, pattern : DeletePatterns]

DeleteInit ==
  /\ max_retries \in WorkingRetryConfigs
  /\ retry_delay = 1
  /\ batch_size = 2
  /\ BatchIdle
  /\ FsIdle
  /\ ExecIdle
  /\ ListIdle
  /\ remote = InitialRemote
  /\ args \in DeleteCalls
  /\ op_items = <<>>
  /\ op_idx = 0
  /\ renamed_items = <<>>
  /\ OpAuxIdle
  /\ op_pc = "start"

\* deleted_items = []; items = self.list_folder_contents(folder_id)
DeleteList ==
  /\ op_pc = "start"
  /\ \E orc \in ListOracles(remote) :
       \E ls \in {ListFolderContents(remote, orc, args.folder_id)} :
          /\ remote' = ls.ctx
          /\ op_items' = ls.items
          /\ op_idx' = 1
          /\ op_pc' = IF ls.pc = "returned" THEN "loop" ELSE "raised"
  /\ UNCHANGED <<retryVars, fsVars, listVars, args, renamed_items, opAux, batchVars>>

\* one iteration of: for item in items
DeleteStep ==
  /\ op_pc = "loop"
  /\ op_idx <= Len(op_items)
  /\ \E kind \in RequestKinds :
       \E r \in {DeleteItem(remote, (remote.rpc + 1) :> kind, op_items[op_idx],
                            args.pattern)} :
          /\ remote' = r.ctx
          /\ deleted_items' = deleted_items \o r.deleted
  /\ op_idx' = op_idx + 1
  /\ UNCHANGED <<retryVars, fsVars, listVars, args, op_items, renamed_items,
                 copied_files, op_val, op_run, run_start, op_pc, batchVars>>

\* return deleted_items
DeleteReturn ==
  /\ op_pc = "loop"
  /\ op_idx > Len(op_items)
  /\ op_pc' = "returned"
  /\ UNCHANGED <<retryVars, fsVars, listVars, remote, args, op_items, op_idx,
                 renamed_items, opAux, batchVars>>

\* delete_items is called again with the same folder and pattern
DeleteAgain ==
  /\ op_pc = "returned"
  /\ op_run = 1
  /\ op_run' = 2
  /\ run_start' = remote.rpc
  /\ op_items' = <<>>
  /\ op_idx' = 0
  /\ deleted_items' = <<>>
  /\ op_pc' = "start"
  /\ UNCHANGED <<retryVars, fsVars, listVars, remote, args, renamed_items,
                 copied_files, op_val, batchVars>>

DeleteNext == DeleteList \/ DeleteStep \/ DeleteReturn \/ DeleteAgain

SpecDelete == DeleteInit /\ [][DeleteNext]_vars

(***************************************************************************)
(* Claims about delete_items, checked under SpecDelete.                    *)
(***************************************************************************)
IsDelete(e) == e.op = "delete"

DeleteMatches(it) == PatternMatches(it.name, args.pattern)

\* the delete requests of the call in progress, in order
DeletesMade == SelectSeq(RequestsOfRun, IsDelete)

\* the listed items the loop has gone through that match the pattern
DeleteMatchesDone == SelectSeq(SubSeq(op_items, 1, op_idx - 1), DeleteMatches)

\* the names of the k-th up to the last of the matching items gone through
\* whose delete request succeeded
RECURSIVE NamesOfDeleted(_)
NamesOfDeleted(k) ==
  IF k > Len(DeleteMatchesDone) THEN <<>>
  ELSE (IF DeletesMade[k].ok THEN <<DeleteMatchesDone[k].name>> ELSE <<>>)
         \o NamesOfDeleted(k + 1)

\* the ids of the matching items whose delete request succeeded
DeletedIds ==
  {DeleteMatchesDone[k].id : k \in {j \in 1 .. Len(DeleteMatchesDone) :
                                      DeletesMade[j].ok}}

\* the items a folder of DeletedIds held when the call began
HeldByDeleted == UNION {Descendants(InitialStore, i) : i \in DeletedIds}

\* a delete request is made for each listed child that matches the pattern and
\* for nothing else, whatever happened to earlier items, and the names
\* returned are those of the matches whose request succeeded
DeleteRequestsRight ==
  /\ op_items = ChildrenOf(InitialStore, args.folder_id)
  /\ op_pc = "returned" => op_idx = Len(op_items) + 1
  /\ Len(DeletesMade) = Len(DeleteMatchesDone)
  /\ \A k \in 1 .. Len(DeleteMatchesDone) :
       DeletesMade[k].id = DeleteMatchesDone[k].id
  /\ deleted_items = NamesOfDeleted(1)
  /\ DeletedIds \cap DOMAIN remote.store = {}

\* C13 as stated: delete_items issues a delete request only for the listed
\* children of the folder whose name matches the pattern, continues after a
\* failure, returns exactly the names of the matches whose request succeeded,
\* and every other item of the store is left untouched.
C13_DeleteOnlyMatches ==
  (op_run = 1 /\ op_pc \in {"loop", "returned"}) =>
    /\ DeleteRequestsRight
    /\ \A i \in (DOMAIN InitialStore) \ DeletedIds :
         i \in DOMAIN remote.store /\ remote.store[i] = InitialStore[i]

\* C13, amended: as stated, except that what a deleted folder held goes with
\* it; every item that is neither deleted by a request nor held by a folder
\* so deleted is left untouched.
C13_DeleteMatchesAndContents ==
  (op_run = 1 /\ op_pc \in {"loop", "returned"}) =>
    /\ DeleteRequestsRight
    /\ DOMAIN remote.store = (DOMAIN InitialStore) \ (DeletedIds \cup HeldByDeleted)
    /\ \A i \in DOMAIN remote.store : remote.store[i] = InitialStore[i]

\* of the three matches the first failed to be deleted and the other two,
\* one of them a folder holding a file, were deleted
C13_Witness ==
  /\ op_run = 1
  /\ op_pc = "returned"
  /\ args.folder_id = 1
  /\ args.pattern = <<"*">>
  /\ Len(DeletesMade) = 5
  /\ ~DeletesMade[1].ok
  /\ deleted_items = << <<".", "t">>, <<"s">>, <<"b", ".", "t">>, <<"e">> >>
  /\ DOMAIN remote.store = {1, 2}

\* the first call deleted every item that matched
FirstRunClean ==
  \A k \in 1 .. run_start : remote.log[k].op = "delete" => remote.log[k].ok

\* C14: after a call of delete_items that deleted every matching item, a
\* second call on the same folder and pattern makes no delete request and
\* returns the empty list; it raises only if its own list request fails.
C14_DeleteIdempotent ==
  (op_run = 2 /\ FirstRunClean) =>
    /\ DeletesMade = <<>>
    /\ deleted_items = <<>>
    /\ \A k \in 1 .. Len(RequestsOfRun) : RequestsOfRun[k].op = "list"
    /\ op_pc = "raised" =>
         /\ RequestsOfRun # <<>>
         /\ ~RequestsOfRun[Len(RequestsOfRun)].ok
    /\ (\A k \in 1 .. Len(RequestsOfRun) : RequestsOfRun[k].ok) =>
         op_pc # "raised"

\* the first call deleted the three matches, the second returned the empty list
C14_Witness ==
  /\ op_run = 2
  /\ op_pc = "returned"
  /\ args.folder_id = 1
  /\ args.pattern = <<"*", ".", "t">>
  /\ Len(SelectSeq(remote.log, IsDelete)) = 3
  /\ FirstRunClean
  /\ Len(op_items) = 2
  /\ deleted_items = <<>>

(***************************************************************************)
(* DriveManager.execute_batch_command and GDriveTool.execute_batch.        *)
(* A command is a record: its fields are the keys of the JSON object.      *)
(***************************************************************************)
\* command.get(key) is None
Lacks(command, key) == key \notin DOMAIN command

\* command.get(key) or default
Get(command, key, default) ==
  IF key \in DOMAIN command THEN command[key] ELSE default

\* str(None): what cmd.get('action') gives for a command without the key
PyNone == "None"

EmptyDict == [k \in {} |-> k]

\* DriveManager.parse_shared_link: the id text, or ValueError for none
ParseSharedLink(ctx, url) ==
  Bind(ExtractFileIdFromUrl(url),
       LAMBDA file_id : IF file_id = <<>> THEN Raised(ctx, "ValueError")
                        ELSE Returned(ctx, file_id))

\* the result of an operation as the details of the command's result
WithDetails(op, key) ==
  Bind(op, LAMBDA r : IF r.pc = "returned"
                        THEN Returned(r.ctx, [k \in {key} |-> r.val])
                        ELSE r)

\* mutant: the rename branch lists the folder before it reads 'target'
DispatchRenameListsFirst(ctx, orc, command) ==
  IF Lacks(command, "folder_id") THEN Raised(ctx, "KeyError")
  ELSE IF Lacks(command, "target")
    THEN Raised(ListFolderContents(ctx, orc, command.folder_id).ctx, "KeyError")
    ELSE WithDetails(BatchRename(ctx, orc, command.folder_id, command.target,
                                 Get(command, "prefix", <<>>),
                                 Get(command, "suffix", <<>>)),
                     "renamed_items")

\* the branch action == 'rename'
DispatchRename(ctx, orc, command) ==
  IF Lacks(command, "folder_id") \/ Lacks(command, "target")
    THEN Raised(ctx, "KeyError")
    ELSE WithDetails(BatchRename(ctx, orc, command.folder_id, command.target,
                                 Get(command, "prefix", <<>>),
                                 Get(command, "suffix", <<>>)),
                     "renamed_items")

\* the body of the try block of execute_batch_command: the branch of the
\* action, each reading its fields (KeyError for a missing one) before it
\* calls the operation
Dispatch(ctx, orc, command) ==
  CASE command.action = "copy" ->
         IF Lacks(command, "source") THEN Raised(ctx, "KeyError")
         ELSE Bind(ParseSharedLink(ctx, command.source),
                   LAMBDA source_id :
                     IF source_id.pc = "raised" THEN source_id
                     ELSE WithDetails(
                            CopyDriveItem(ctx, orc, ItemOf(source_id.val),
                                          Get(command, "destination", 0),
                                          <<>>, 1),
                            "new_id"))
    [] command.action = "rename" -> DispatchRename(ctx, orc, command)
    [] command.action = "delete" ->
         IF Lacks(command, "folder_id") \/ Lacks(command, "pattern")
           THEN Raised(ctx, "KeyError")
           ELSE WithDetails(DeleteItems(ctx, orc, command.folder_id,
                                        command.pattern),
                            "deleted_items")
    [] command.action = "copy_to_subfolders" ->
         IF Lacks(command, "source_id") \/ Lacks(command, "folder_id")
           THEN Raised(ctx, "KeyError")
           ELSE WithDetails(CopyToSubfolders(ctx, orc, command.source_id,
                                             command.folder_id),
                            "copied_files")
    [] OTHER -> Raised(ctx, "ValueError")

\* DriveManager.execute_batch_command: pc "raised" when the exception leaves
\* the method, "returned" with the result dictionary as val otherwise
ExecuteBatchCommand(ctx, orc, command) ==
  IF Get(command, "action", "") = "" THEN Raised(ctx, "ValueError")
    ELSE Bind(Dispatch(ctx, orc, command),
              LAMBDA r :
                Returned(r.ctx,
                         IF r.pc = "returned"
                           THEN [action |-> command.action,
                                 status |-> "success", details |-> r.val]
                           ELSE [action |-> command.action,
                                 status |-> "error", details |-> EmptyDict,
                                 error |-> r.err]))

\* mutant: the except clause of execute_batch logs and appends nothing
BatchIterationDropsRaised(ctx, orc, cmd, res) ==
  Bind(ExecuteBatchCommand(ctx, orc, cmd),
       LAMBDA r :
         [pc |-> r.pc, ctx |-> r.ctx,
          results |-> IF r.pc = "returned" THEN Append(res, r.val) ELSE res])

\* the body of the for loop of execute_batch: the result of the command is
\* appended, or an error entry for the exception execute_batch_command raised
BatchIteration(ctx, orc, cmd, res) ==
  Bind(ExecuteBatchCommand(ctx, orc, cmd),
       LAMBDA r :
         [pc |-> r.pc, ctx |-> r.ctx,
          results |-> IF r.pc = "returned" THEN Append(res, r.val)
                      ELSE Append(res, [action |-> Get(cmd, "action", PyNone),
                                        status |-> "error", error |-> r.err])])

\* the links and the commands of the batches of the model
FileLink(id_text) == [path |-> <<"/", "f", "i", "l", "e", "/", "d", "/">> \o id_text,
                      query |-> <<>>]

FolderLink(id_text) ==
  [path |-> <<"/", "d", "r", "i", "v", "e", "/", "f", "o", "l", "d", "e", "r", "s", "/">>
              \o id_text,
   query |-> <<>>]

CommandPool ==
  { [action |-> "copy", source |-> FileLink(<<"2">>), destination |-> 4],
    [action |-> "copy", source |-> FolderLink(<<"4", "2">>)],
    [action |-> "rename", folder_id |-> 1, target |-> <<"*", ".", "t">>,
     prefix |-> <<"X">>],
    [action |-> "delete", folder_id |-> 1, pattern |-> <<"s">>],
    [action |-> "copy_to_subfolders", source_id |-> 2, folder_id |-> 1],
    [description |-> "no action"],
    [action |-> "rename", folder_id |-> 1],
    [action |-> "move", source |-> FileLink(<<"2">>)] }

Batches == UNION {[1 .. n -> CommandPool] : n \in 0 .. MaxCmds}

\* the runs of the service: no fault, or one request that fails on every try
BatchOracles == {NoFaults} \cup {k :> "down" : k \in 1 .. MaxFaultPos}

\* a required field is missing from the command
RequiredFields(action) ==
  CASE action = "copy" -> {"source"}
    [] action = "rename" -> {"folder_id", "target"}
    [] action = "delete" -> {"folder_id", "pattern"}
    [] action = "copy_to_subfolders" -> {"source_id", "folder_id"}
    [] OTHER -> {}

Malformed(cmd) ==
  \/ Lacks(cmd, "action")
  \/ ~(RequiredFields(cmd.action) \subseteq DOMAIN cmd)

BatchInit ==
  /\ max_retries = MaxRetriesCfg
  /\ retry_delay = 1
  /\ batch_size = MaxBatch
  /\ ExecIdle
  /\ ListIdle
  /\ OpIdle
  /\ FsIdle
  /\ commands \in Batches
  /\ faults \in BatchOracles
  /\ cmd_idx = 1
  /\ batch_results = <<>>
  /\ calls = <<>>
  /\ ref_remote = InitialRemote
  /\ ref_results = <<>>
  /\ report = NoReport
  /\ batch_pc = "load"

\* with open(batch_file, 'r') as f: commands = json.load(f); a file that
\* cannot be opened or parsed is logged and ends the process: sys.exit(1)
LoadBatch ==
  /\ batch_pc = "load"
  /\ \E loaded \in BOOLEAN :
       batch_pc' = IF loaded THEN "run" ELSE "exited"
  /\ UNCHANGED <<retryVars, fsVars, listVars, opVars, commands, faults, cmd_idx,
                 batch_results, calls, ref_remote, ref_results, report>>

\* one iteration of: for cmd in commands.get('commands', []), and the same
\* iteration in the run of the batch without its malformed commands
BatchStep ==
  /\ batch_pc = "run"
  /\ cmd_idx <= Len(commands)
  /\ \E it \in {BatchIteration(remote, faults, commands[cmd_idx],
                               batch_results)} :
       /\ remote' = it.ctx
       /\ batch_results' = it.results
       /\ calls' = Append(calls, [pc |-> it.pc, rpc |-> it.ctx.rpc])
  /\ IF Malformed(commands[cmd_idx])
       THEN UNCHANGED <<ref_remote, ref_results>>
       ELSE \E rf \in {BatchIteration(ref_remote, faults, commands[cmd_idx],
                                      ref_results)} :
              /\ ref_remote' = rf.ctx
              /\ ref_results' = rf.results
  /\ cmd_idx' = cmd_idx + 1
  /\ UNCHANGED <<retryVars, fsVars, listVars, args, op_items, op_idx, renamed_items,
                 opAux, op_pc, commands, faults, report, batch_pc>>

\* with open(report_file, 'w') as f: json.dump(results, f, indent=2), in a try
\* whose except logs the error
SaveReport ==
  /\ batch_pc = "run"
  /\ cmd_idx > Len(commands)
  /\ \E written \in BOOLEAN :
       report' = IF written THEN [written |-> TRUE, content |-> batch_results]
                 ELSE NoReport
  /\ batch_pc' = "done"
  /\ UNCHANGED <<retryVars, fsVars, listVars, opVars, commands, faults, cmd_idx,
                 batch_results, calls, ref_remote, ref_results>>

BatchNext == LoadBatch \/ BatchStep \/ SaveReport

SpecBatch == BatchInit /\ [][BatchNext]_vars

(***************************************************************************)
(* Claims about the batch, checked under SpecBatch.                        *)
(***************************************************************************)
\* the requests made before the i-th command began
RpcBefore(i) == IF i = 1 THEN 0 ELSE calls[i - 1].rpc

\* the requests the i-th command made, in order
RequestsOf(i) == SubSeq(remote.log, RpcBefore(i) + 1, calls[i].rpc)

\* something failed in the i-th command: it is malformed, names no known
\* action, or a request of it failed that no per-item handler absorbs (any
\* request of a copy, the listing of a rename or a delete, the listing of the
\* subfolders or the metadata of the source of a fan-out)
SomethingFailed(i) ==
  \/ Malformed(commands[i])
  \/ commands[i].action \notin {"copy", "rename", "delete", "copy_to_subfolders"}
  \/ \E k \in 1 .. Len(RequestsOf(i)) :
       /\ ~RequestsOf(i)[k].ok
       /\ \/ commands[i].action = "copy"
          \/ commands[i].action \in {"rename", "delete"}
               /\ RequestsOf(i)[k].op = "list"
          \/ commands[i].action = "copy_to_subfolders" /\ k <= 2

\* C1: execute_batch_command never propagates an error to its caller: for
\* every command (without 'action', missing a required field, with an unknown
\* action, with failing requests) it returns a result, and the result has
\* status error whenever something failed.
C1_CommandNeverPropagates ==
  \A i \in 1 .. Len(calls) :
    /\ calls[i].pc = "returned"
    /\ SomethingFailed(i) =>
         /\ batch_results[i].status = "error"
         /\ "error" \in DOMAIN batch_results[i]

\* the requests an action makes
ClaimOpsOf(action) ==
  CASE action = "copy" -> {"get", "copy", "create", "list"}
    [] action = "rename" -> {"list", "update"}
    [] action = "delete" -> {"list", "delete"}
    [] action = "copy_to_subfolders" -> {"list", "get", "copy", "create"}
    [] OTHER -> {}

\* C2: execute_batch over n commands ends with n results, the i-th being the
\* result of the i-th command (same action, same position); the commands run
\* one at a time in input order (the requests of command i all come after
\* those of command i - 1 and are requests of its action), whichever of them
\* fail; the report written is that sequence of results.
C2_BatchReportInOrder ==
  batch_pc \in {"run", "done"} =>
    /\ Len(batch_results) = cmd_idx - 1
    /\ Len(calls) = cmd_idx - 1
    /\ cmd_idx <= Len(commands) + 1
    /\ batch_pc = "done" => Len(batch_results) = Len(commands)
    /\ \A i \in 1 .. Len(batch_results) :
         /\ batch_results[i].action = Get(commands[i], "action", "None")
         /\ batch_results[i].status \in {"success", "error"}
         /\ RpcBefore(i) <= calls[i].rpc
         /\ \A k \in 1 .. Len(RequestsOf(i)) :
              RequestsOf(i)[k].op \in ClaimOpsOf(batch_results[i].action)
    /\ Len(calls) > 0 => calls[Len(calls)].rpc = remote.rpc
    /\ report.written => batch_pc = "done" /\ report.content = batch_results

\* three commands, all of them failing, and the report has the three entries
C2_Witness ==
  /\ batch_pc = "done"
  /\ Len(commands) = 3
  /\ report.written
  /\ Len(report.content) = 3
  /\ \A i \in 1 .. 3 : report.content[i].status = "error"
  /\ report.content[1].action = "None"
  /\ report.content[2].action = "copy"
  /\ report.content[3].action = "move"

\* the results of the i-th and later commands that are not malformed
RECURSIVE ResultsOfWellFormed(_)
ResultsOfWellFormed(i) ==
  IF i > Len(batch_results) THEN <<>>
  ELSE (IF Malformed(commands[i]) THEN <<>> ELSE <<batch_results[i]>>)
         \o ResultsOfWellFormed(i + 1)

\* C3: a command with a required field missing gets an entry with status error
\* and makes no request; every other command gets the same result and has
\* the same effects on the remote store as in the run of the batch without
\* the malformed command.
C3_MalformedIsolated ==
  batch_pc \in {"run", "done"} =>
    /\ \A i \in 1 .. Len(batch_results) :
         Malformed(commands[i]) =>
           /\ batch_results[i].status = "error"
           /\ calls[i].rpc = RpcBefore(i)
    /\ ResultsOfWellFormed(1) = ref_results
    /\ remote = ref_remote
    /\ batch_pc = "done" =>
         Len(ref_results) = Cardinality({i \in 1 .. Len(commands) :
                                           ~Malformed(commands[i])})

\* the second of three commands lacks its 'target'; the first copied a file
\* and the third renamed three
C3_Witness ==
  /\ batch_pc = "done"
  /\ Len(commands) = 3
  /\ commands[2] = [action |-> "rename", folder_id |-> 1]
  /\ batch_results[2].status = "error"
  /\ batch_results[1].action = "copy"
  /\ batch_results[1].status = "success"
  /\ batch_results[3].action = "rename"
  /\ batch_results[3].status = "success"
  /\ Len(batch_results[3].details.renamed_items) = 3
  /\ 8 \in DOMAIN remote.store
  /\ remote.store[5].name = <<"X", "b", ".", "t">>

\* C18: a batch invocation always runs to completion and always produces a
\* report file that holds the results, whatever the batch input and whatever
\* fails: it never ends without the file.
C18_BatchAlwaysReports ==
  batch_pc \in {"done", "exited"} =>
    /\ batch_pc = "done"
    /\ report.written
    /\ report.content = batch_results
    /\ Len(report.content) = Len(commands)

\* C19: every entry of the report has the shape of a command result: an
\* action that is a string, a status success or error, a details mapping, and
\* an error field exactly when the status is error; so for a command that
\* fails before dispatch (no action) too.
C19_ResultShape ==
  \A i \in 1 .. Len(batch_results) :
    /\ {"action", "status", "details"} \subseteq DOMAIN batch_results[i]
    /\ batch_results[i].action # "None"
    /\ batch_results[i].status \in {"success", "error"}
    /\ ("error" \in DOMAIN batch_results[i]) <=> (batch_results[i].status = "error")

(***************************************************************************)
(* The end of execute_batch in two batch runs that share a working         *)
(* directory: each names its report file after the time it reads.          *)
(***************************************************************************)
Runs == {1, 2}

\* the results a run has collected when its loop ends
RunReports ==
  { <<>>,
    <<[action |-> "delete", status |-> "success",
       details |-> [deleted_items |-> <<>>]]>>,
    <<[action |-> "copy", status |-> "error", details |-> EmptyDict,
       error |-> "HttpError"]>> }

\* run r has written no file
NoFile == 0 - 1

\* datetime.now().strftime('%Y%m%d_%H%M%S'): the time to the second
Timestamp(now) == now \div TicksPerSecond

ReportsInit ==
  /\ max_retries = MaxRetriesCfg
  /\ retry_delay = 1
  /\ batch_size = MaxBatch
  /\ BatchIdle
  /\ ExecIdle
  /\ ListIdle
  /\ OpIdle
  /\ clock = 0
  /\ files = <<>>
  /\ run_pc = [r \in Runs |-> "run"]
  /\ run_results \in [Runs -> RunReports]
  /\ run_file = [r \in Runs |-> NoFile]
  /\ AuthIdle

\* time passes
Tick ==
  /\ clock < MaxClock
  /\ clock' = clock + 1
  /\ UNCHANGED <<retryVars, listVars, opVars, batchVars, files, run_pc,
                 run_results, run_file, authVars>>

\* timestamp = datetime.now().strftime(...); report_file = f'batch_report_
\* {timestamp}.json'; open(report_file, 'w') replaces a file of that name;
\* a failure to write is logged
SaveRunReport(r) ==
  /\ run_pc[r] = "run"
  /\ \E written \in BOOLEAN :
       IF written
         THEN /\ files' = (Timestamp(clock) :> run_results[r]) @@ files
              /\ run_file' = [run_file EXCEPT ![r] = Timestamp(clock)]
         ELSE UNCHANGED <<files, run_file>>
  /\ run_pc' = [run_pc EXCEPT ![r] = "done"]
  /\ UNCHANGED <<retryVars, listVars, opVars, batchVars, clock, run_results,
                 authVars>>

ReportsNext == Tick \/ \E r \in Runs : SaveRunReport(r)

SpecReports == ReportsInit /\ [][ReportsNext]_vars

\* C20: the report of a batch run is written once and not changed afterwards,
\* and batch runs are independent: of two runs in progress at the same time
\* each leaves its own report file, with its own results, whatever the other
\* does.
C20_ReportsIndependent ==
  \A r \in Runs :
    (run_pc # <<>> /\ run_pc[r] = "done" /\ run_file[r] # NoFile) =>
      /\ run_file[r] \in DOMAIN files
      /\ files[run_file[r]] = run_results[r]
      /\ \A q \in Runs \ {r} : run_file[q] # run_file[r]

(***************************************************************************)
(* Batches of one copy command, in every form of its fields.               *)
(***************************************************************************)
\* urlparse of a text with no scheme, '/', '?' or '#': the text is the path
BareId(id_text) == [path |-> id_text, query |-> <<>>]

\* a link that carries the id in its query: /open?id=<id>
OpenLink(id_text) ==
  [path |-> <<"/", "o", "p", "e", "n">>, query |-> <<"i", "d", "=">> \o id_text]

\* the sources of the copy commands: item 2 (a file) and item 4 (a folder)
CopySources ==
  {FileLink(<<"2">>), FolderLink(<<"4">>), OpenLink(<<"2">>), BareId(<<"2">>),
   BareId(<<"4">>)}

\* the item a source of CopySources names
SourceItem(source) ==
  IF source \in {FolderLink(<<"4">>), BareId(<<"4">>)} THEN 4 ELSE 2

CopyCommands ==
  LET base == {[action |-> "copy", source |-> src] : src \in CopySources}
      dest == base \cup {c @@ [destination |-> 6] : c \in base}
  IN dest \cup {c @@ [new_name |-> <<"n">>] : c \in dest}

CopyCommandInit ==
  /\ max_retries = MaxRetriesCfg
  /\ retry_delay = 1
  /\ batch_size = MaxBatch
  /\ ExecIdle
  /\ ListIdle
  /\ OpIdle
  /\ FsIdle
  /\ commands \in [1 .. 1 -> CopyCommands]
  /\ faults \in BatchOracles
  /\ cmd_idx = 1
  /\ batch_results = <<>>
  /\ calls = <<>>
  /\ ref_remote = InitialRemote
  /\ ref_results = <<>>
  /\ report = NoReport
  /\ batch_pc = "load"

SpecCopyCommand == CopyCommandInit /\ [][BatchNext]_vars

\* the copy command has been run and the service failed no request
CopyCommandRan == Len(calls) = 1 /\ faults = NoFaults

\* C21: a copy command copies the item its 'source' names, whether the source
\* is a shared link or a bare item id: when no request fails, the result is a
\* success that carries the id of a new item of the store, a copy of the item
\* named.
C21_CopyAcceptsLinkOrId ==
  CopyCommandRan =>
    /\ batch_results[1].status = "success"
    /\ "new_id" \in DOMAIN batch_results[1].details
    /\ batch_results[1].details.new_id \in DOMAIN remote.store \ DOMAIN InitialStore
    /\ remote.store[batch_results[1].details.new_id].kind =
         InitialStore[SourceItem(commands[1].source)].kind

\* C22: the optional fields of a copy command reach the copy operation: the
\* copy is created under the command's destination when one is given, and is
\* named new_name when one is given.
C22_CopyFieldsReachOperation ==
  (CopyCommandRan /\ batch_results[1].status = "success") =>
    LET copy == remote.store[batch_results[1].details.new_id]
    IN /\ ~Lacks(commands[1], "destination") =>
            copy.parent = commands[1].destination
       /\ ~Lacks(commands[1], "new_name") => copy.name = commands[1].new_name

(***************************************************************************)
(* extract_file_id_from_url on the URLs of a bounded set.                  *)
(***************************************************************************)
\* the segments the paths of the model are made of
PathSegments ==
  { <<"/", "f", "i", "l", "e", "/", "d", "/", "1">>,
    <<"/", "f", "o", "l", "d", "e", "r", "s", "/", "2">>,
    <<"/", "i", "d", "=", "3">>,
    <<"/", "d", "r", "i", "v", "e", "/", "4">>,
    <<"/", "d", "r", "i", "v", "e">>,
    <<"/", "o", "p", "e", "n">> }

UrlPaths ==
  {<<>>} \cup PathSegments \cup {a \o b : a \in PathSegments, b \in PathSegments}

UrlQueries ==
  { <<>>,
    <<"i", "d", "=", "5">>,
    <<"i", "d", "=">>,
    <<"v", "=", "1", "&", "i", "d", "=", "6">>,
    <<"i", "d", "=", "7", "&", "i", "d", "=", "8">> }

UrlInit ==
  /\ max_retries = MaxRetriesCfg
  /\ retry_delay = 1
  /\ batch_size = MaxBatch
  /\ BatchIdle
  /\ FsIdle
  /\ ExecIdle
  /\ ListIdle
  /\ remote = InitialRemote
  /\ args \in [path : UrlPaths, query : UrlQueries]
  /\ op_items = <<>>
  /\ op_idx = 0
  /\ renamed_items = <<>>
  /\ OpAuxIdle
  /\ op_pc = "start"

\* file_id = extract_file_id_from_url(url)
UrlExtract ==
  /\ op_pc = "start"
  /\ op_val' = ExtractFileIdFromUrl(args)
  /\ op_pc' = "returned"
  /\ UNCHANGED <<retryVars, listVars, batchVars, fsVars, remote, args, op_items,
                 op_idx, renamed_items, deleted_items, copied_files, op_run,
                 run_start>>

UrlNext == UrlExtract

SpecUrl == UrlInit /\ [][UrlNext]_vars

\* what the k-th pattern finds in the path of the URL
PathHit(k) == SearchId(args.path, UrlPatterns[k])

PathHits == {k \in 1 .. Len(UrlPatterns) : PathHit(k) # <<>>}

\* the query has a pair whose key is id
QueryNamesId ==
  \E i \in 1 .. Len(args.query) :
    /\ i + 2 <= Len(args.query)
    /\ SubSeq(args.query, i, i + 2) = <<"i", "d", "=">>
    /\ i = 1 \/ args.query[i - 1] = "&"

\* C23: extract_file_id_from_url returns the match of the first of its
\* patterns, in their order, that matches the path, whatever 'id' parameter
\* the query holds; the 'id' parameter of the query is returned only when no
\* pattern matches the path; None is returned when no pattern matches the
\* path and the query has no 'id' parameter.
C23_PathBeforeQuery ==
  op_pc = "returned" =>
    /\ PathHits # {} =>
         op_val = PathHit(CHOOSE k \in PathHits : \A j \in PathHits : k <= j)
    /\ PathHits = {} => op_val = QueryId(args.query, 1)
    /\ (PathHits = {} /\ ~QueryNamesId) => op_val = <<>>

\* a URL with a match in its path and another id in its query: the id of the
\* path was returned
C23_Witness ==
  /\ op_pc = "returned"
  /\ PathHits # {}
  /\ QueryId(args.query, 1) # <<>>
  /\ op_val # QueryId(args.query, 1)

(***************************************************************************)
(* pattern_matches on the names and patterns of a bounded set.             *)
(***************************************************************************)
MatchNames ==
  { <<>>, <<"a">>, <<"a", "b">>, <<"b", "a">>, <<"a", "a", "b">>,
    <<"r", ":", "a">>, <<"r", ":", "*">> }

GlobPatterns ==
  { <<"a">>, <<"a", "*">>, <<"*", "a">>, <<"?">>, <<"*">>, <<"a", "?">>,
    <<"r", "?", "a">> }

RegexPatterns ==
  { <<"r", ":", "a">>, <<"r", ":", "a", "*">>, <<"r", ":", ".">>,
    <<"r", ":", ".", "*", "b">>, <<"r", ":", "b">>, <<"r", ":">>,
    <<"r", ":", "a", "b">> }

\* regexes re.compile rejects
BadRegexPatterns ==
  { <<"r", ":", "*">>, <<"r", ":", "a", "*", "*">>,
    <<"r", ":", "a", HugeRepeat>> }

MatchInit ==
  /\ max_retries = MaxRetriesCfg
  /\ retry_delay = 1
  /\ batch_size = MaxBatch
  /\ BatchIdle
  /\ FsIdle
  /\ ExecIdle
  /\ ListIdle
  /\ remote = InitialRemote
  /\ args \in [filename : MatchNames,
               pattern : GlobPatterns \cup RegexPatterns \cup BadRegexPatterns]
  /\ op_items = <<>>
  /\ op_idx = 0
  /\ renamed_items = <<>>
  /\ OpAuxIdle
  /\ op_pc = "start"

\* pattern_matches(filename, pattern)
Match ==
  /\ op_pc = "start"
  /\ IF PatternMatchesRaises(args.pattern)
       THEN /\ op_pc' = "raised"
            /\ op_val' = "OverflowError"
       ELSE /\ op_pc' = "returned"
            /\ op_val' = PatternMatches(args.filename, args.pattern)
  /\ UNCHANGED <<retryVars, listVars, batchVars, fsVars, remote, args, op_items,
                 op_idx, renamed_items, deleted_items, copied_files, op_run,
                 run_start>>

MatchNext == Match

SpecMatch == MatchInit /\ [][MatchNext]_vars

\* the regex of the pattern of the call
RegexOfArgs == SubSeq(args.pattern, 3, Len(args.pattern))

\* the regex re[j..] (of literals, '.' and starred atoms) matches all of
\* w[i..]
RECURSIVE RegexAccepts(_, _, _, _)
RegexAccepts(w, re, i, j) ==
  IF j > Len(re) THEN i > Len(w)
  ELSE IF j < Len(re) /\ re[j + 1] = "*"
    THEN \/ RegexAccepts(w, re, i, j + 2)
         \/ /\ i <= Len(w)
            /\ re[j] \in {".", w[i]}
            /\ RegexAccepts(w, re, i + 1, j)
    ELSE /\ i <= Len(w)
         /\ re[j] \in {".", w[i]}
         /\ RegexAccepts(w, re, i + 1, j + 1)

\* the regex is one re.compile accepts
WellFormed(re) ==
  /\ \A j \in 1 .. Len(re) : re[j] # HugeRepeat
  /\ \A j \in 1 .. Len(re) : re[j] = "*" => (j > 1 /\ re[j - 1] # "*")

\* the regex matches a prefix of the name that starts at position 0
MatchesPrefix(name, re) ==
  /\ WellFormed(re)
  /\ \E k \in 0 .. Len(name) : RegexAccepts(SubSeq(name, 1, k), re, 1, 1)

\* C24 as stated: for every pattern that starts with 'r:' the result is true
\* exactly when the regex after the marker matches a prefix of the name; for
\* any other pattern, exactly when the glob matches the whole name.
C24_RegexOrGlob ==
  op_pc = "returned" =>
    IF StartsWithMarker(args.pattern)
      THEN op_val <=> MatchesPrefix(args.filename, RegexOfArgs)
      ELSE op_val <=> FnMatch(args.filename, args.pattern)

\* C24: for a pattern that starts with 'r:' and whose regex compiles, the
\* result is true exactly when the regex matches a prefix of the name that
\* starts at position 0, whatever the glob reading of the pattern gives; for
\* a pattern that does not start with 'r:', and for one whose regex raises
\* re.error, exactly when the glob matches the whole name.
C24_WellFormedRegexOrGlob ==
  op_pc = "returned" =>
    /\ (StartsWithMarker(args.pattern) /\ WellFormed(RegexOfArgs)) =>
         (op_val <=> MatchesPrefix(args.filename, RegexOfArgs))
    /\ (StartsWithMarker(args.pattern) /\ RegexError(RegexOfArgs)) =>
         (op_val <=> FnMatch(args.filename, args.pattern))
    /\ ~StartsWithMarker(args.pattern) =>
         (op_val <=> FnMatch(args.filename, args.pattern))

\* a well-formed regex that matches no prefix of a name the glob reading of
\* the pattern matches: the result is false
C24_Witness ==
  /\ op_pc = "returned"
  /\ StartsWithMarker(args.pattern)
  /\ WellFormed(RegexOfArgs)
  /\ FnMatch(args.filename, args.pattern)
  /\ op_val = FALSE

\* C27: pattern_matches never raises for a malformed regex: when the pattern
\* starts with 'r:' and its regex does not compile, the call returns, and the
\* result is the glob match of the name against the whole pattern, marker
\* included.
C27_MalformedRegexFallsBack ==
  (op_pc # "start" /\ StartsWithMarker(args.pattern) /\ ~WellFormed(RegexOfArgs)) =>
    /\ op_pc = "returned"
    /\ op_val <=> FnMatch(args.filename, args.pattern)

(***************************************************************************)
(* DriveAuth.get_credentials. Credentials are given by what the code reads *)
(* of them: whether they hold a token, are expired, hold a refresh token.  *)
(***************************************************************************)
CredStates ==
  [kind : {"creds"}, token : BOOLEAN, expired : BOOLEAN, refresh_token : BOOLEAN]

\* Credentials.valid: a token that is not expired
IsValid(c) == c.token /\ ~c.expired

\* what creds.refresh and flow.run_local_server leave: a fresh token
FreshCreds ==
  [kind |-> "creds", token |-> TRUE, expired |-> FALSE, refresh_token |-> TRUE]

\* a stored token pickle.loads raises on
Unreadable == [NoCreds EXCEPT !.kind = "unreadable"]

\* the keyring holds nothing, something pickle.loads rejects, or credentials
StoredTokens == {NoCreds, Unreadable} \cup CredStates

AuthEnvs == [refresh_ok : BOOLEAN, file_exists : BOOLEAN, flow_ok : BOOLEAN]

AuthInit ==
  /\ max_retries = MaxRetriesCfg
  /\ retry_delay = 1
  /\ batch_size = MaxBatch
  /\ BatchIdle
  /\ ExecIdle
  /\ ListIdle
  /\ OpIdle
  /\ clock = 0
  /\ files = <<>>
  /\ run_pc = <<>>
  /\ run_results = <<>>
  /\ run_file = <<>>
  /\ stored_token \in StoredTokens
  /\ creds = NoCreds
  /\ auth_env \in AuthEnvs
  /\ auth_pc = "load"

authFrame ==
  <<retryVars, listVars, opVars, batchVars, clock, files, run_pc, run_results,
    run_file, auth_env>>

\* stored_token = keyring.get_password(...); if stored_token: try: creds =
\* pickle.loads(stored_token) except Exception: pass
LoadToken ==
  /\ auth_pc = "load"
  /\ creds' = IF stored_token \in CredStates THEN stored_token ELSE NoCreds
  /\ auth_pc' = "check"
  /\ UNCHANGED <<authFrame, stored_token>>

\* if not creds or not creds.valid: if creds and creds.expired and
\* creds.refresh_token: ...; otherwise return creds
CheckCreds ==
  /\ auth_pc = "check"
  /\ auth_pc' = IF creds # NoCreds /\ IsValid(creds) THEN "returned"
                ELSE IF creds # NoCreds /\ creds.expired /\ creds.refresh_token
                  THEN "refresh"
                  ELSE "flow"
  /\ UNCHANGED <<authFrame, stored_token, creds>>

\* try: creds.refresh(Request()) except Exception: creds = None
Refresh ==
  /\ auth_pc = "refresh"
  /\ creds' = IF auth_env.refresh_ok THEN FreshCreds ELSE NoCreds
  /\ auth_pc' = "flow"
  /\ UNCHANGED <<authFrame, stored_token>>

\* if not creds: the FileNotFoundError for a missing credentials file, or the
\* OAuth flow, which gives credentials or raises
RunFlow ==
  /\ auth_pc = "flow"
  /\ IF creds # NoCreds
       THEN /\ auth_pc' = "save"
            /\ UNCHANGED creds
       ELSE IF auth_env.file_exists /\ auth_env.flow_ok
         THEN /\ auth_pc' = "save"
              /\ creds' = FreshCreds
         ELSE /\ auth_pc' = "raised"
              /\ UNCHANGED creds
  /\ UNCHANGED <<authFrame, stored_token>>

\* token_pickle = pickle.dumps(creds); keyring.set_password(...); return creds
SaveToken ==
  /\ auth_pc = "save"
  /\ stored_token' = creds
  /\ auth_pc' = "returned"
  /\ UNCHANGED <<authFrame, creds>>

AuthNext == LoadToken \/ CheckCreds \/ Refresh \/ RunFlow \/ SaveToken

SpecAuth == AuthInit /\ [][AuthNext]_vars

\* C25: get_credentials returns only valid credentials: from every state of
\* the stored token it returns credentials that are valid or raises, and the
\* credentials the keyring holds when it returns are valid.
C25_OnlyValidCredentials ==
  auth_pc = "returned" =>
    /\ creds # NoCreds
    /\ IsValid(creds)
    /\ stored_token \in CredStates
    /\ IsValid(stored_token)

(***************************************************************************)
(* Claims about the copy of a folder, checked under SpecCopy.              *)
(***************************************************************************)
\* the children of folder f in store st, in the order of the listing
KidsOf(st, f) == SortedSeq({i \in DOMAIN st : st[i].parent = f})

\* the subtree of dst in the store is the subtree of src as it was: the same
\* kinds, and child by child, in listing order, the same names
RECURSIVE Mirrors(_, _)
Mirrors(src, dst) ==
  /\ remote.store[dst].kind = InitialStore[src].kind
  /\ \E a \in {KidsOf(InitialStore, src)} :
       \E b \in {KidsOf(remote.store, dst)} :
         /\ Len(a) = Len(b)
         /\ \A k \in 1 .. Len(a) :
              /\ remote.store[b[k]].name = InitialStore[a[k]].name
              /\ Mirrors(a[k], b[k])

\* a folder was copied and the call returned
FolderCopied ==
  /\ op_pc = "returned"
  /\ args.call.item_id \in DOMAIN InitialStore
  /\ InitialStore[args.call.item_id].kind = FOLDER

\* C26: a successful folder copy mirrors the source tree: the new folder is
\* created first, named new_name if given, else as the source, under the
\* destination if given; the children are copied in listing order,
\* depth-first, under their names; the copy has the shape, names and kinds of
\* the source subtree, nothing else is created, and the source is unchanged.
C26_FolderCopyMirrors ==
  FolderCopied =>
    /\ op_val.id \in Created
    /\ \A i \in Created : op_val.id <= i
    /\ remote.store[op_val.id].name =
         IF args.call.new_name # <<>> THEN args.call.new_name
         ELSE InitialStore[args.call.item_id].name
    /\ remote.store[op_val.id].parent = args.call.destination
    /\ Mirrors(args.call.item_id, op_val.id)
    /\ Created = {op_val.id} \cup Descendants(remote.store, op_val.id)
    /\ \A f \in Created :
         \E held \in {Descendants(remote.store, f)} :
           held = (f + 1) .. (f + Cardinality(held))
    /\ \A i \in DOMAIN InitialStore :
         i \in DOMAIN remote.store /\ remote.store[i] = InitialStore[i]

\* folder d, which holds files and the folders s (with a file) and e, was
\* copied under a new name: seven items were created
C26_Witness ==
  /\ FolderCopied
  /\ args.call.item_id = 1
  /\ args.call.new_name = <<"n">>
  /\ Cardinality(Created) = 7

\* the call names an item and a destination of the store, and the service
\* fails no request
CopyUnhindered ==
  /\ op_pc # "start"
  /\ args.orc = NoFaults
  /\ args.call.item_id \in DOMAIN InitialStore
  /\ args.call.destination \in {0} \cup DOMAIN InitialStore

\* C28: on a finite acyclic hierarchy with no failing request,
\* copy_drive_item(id, destination) terminates for every destination, the
\* source folder itself and the folders it holds included: the recursion ends
\* and the call returns the id of the copy.
C28_CopyTerminates ==
  CopyUnhindered =>
    /\ op_pc = "returned"
    /\ op_val.id \in Created

(***************************************************************************)
(* The configurations of max_retries, checked under SpecRetry.             *)
(***************************************************************************)
\* C29: for every configured max_retries, zero and negative values included,
\* _execute_with_retry calls request.execute() at least once and ends by
\* returning the response of an invocation that succeeded or by raising the
\* error of one that failed; it never returns without a response.
C29_NeverReturnsNothing ==
  Ended =>
    /\ invoked >= 1
    /\ exec_pc \in {"returned", "raised"}
    /\ exec_pc = "returned" => script[exec_val] = HTTP_OK
    /\ exec_pc = "raised" => script[invoked] # HTTP_OK

====
